---- MODULE Spec2Model ----
(***************************************************************************)
(* Model of the baby-names room session: the session sync engine           *)
(* (sessionSync.js, kept in src/storage.js from line 184), the versioned   *)
(* ntfy session module that drives it (ntfySession.js, src/unnamed/        *)
(* part_008) and the like list kept in localStorage (storage.js); also the *)
(* session module whose disconnect opens a new room (src/unnamed/part_009) *)
(* and the reconnecting session module (src/peerSession.js).               *)
(***************************************************************************)
EXTENDS Integers, Sequences, FiniteSets, TLC

(***************************************************************************)
(* Bounds of the model and the input alphabets.                            *)
(***************************************************************************)
MaxVersion == 2
MaxPayloadLen == 1
MaxGeneration == 2
MaxSyncBatches == 1

Names == {"Emma", "Olivia"}
OneName == {"Emma"}

NoTopic == <<>>
NoSocket == 0
NoTimer == <<>>

InstanceId == "instance-1"
PartnerId == "instance-2"

RoomCodeLength == 8
TOPIC_PREFIX == "baby-names-"

(***************************************************************************)
(* Generic helpers.                                                        *)
(***************************************************************************)
ToSet(s) == {s[i] : i \in DOMAIN s}

SeqsUpTo(S, n) == UNION {[1..k -> S] : k \in 0..n}

IsUnique(s) == \A i, j \in DOMAIN s : i # j => s[i] # s[j]

UniqueSeqs(S) == {s \in SeqsUpTo(S, Cardinality(S)) : IsUnique(s)}

(***************************************************************************)
(* Room codes: a code is a sequence of characters.                         *)
(***************************************************************************)
LowerAlnum == {"a", "b", "k", "l", "m", "n", "x", "y", "0", "1", "2", "3", "7", "8", "9"}

Lower(c) ==
    CASE c = "A" -> "a"
      [] c = "K" -> "k"
      [] c = "M" -> "m"
      [] c = "X" -> "x"
      [] OTHER -> c

RECURSIVE TrimLeft(_)
TrimLeft(s) == IF s # <<>> /\ Head(s) = " " THEN TrimLeft(Tail(s)) ELSE s

RECURSIVE TrimRight(_)
TrimRight(s) ==
    IF s # <<>> /\ s[Len(s)] = " " THEN TrimRight(SubSeq(s, 1, Len(s) - 1)) ELSE s

normalizeRoomCode(roomCode) ==
    LET trimmed == TrimRight(TrimLeft(roomCode))
    IN  [i \in 1..Len(trimmed) |-> Lower(trimmed[i])]

\* Mutant of createRoomCodeResults: a code of two characters.
createRoomCodeShort == {<<"b", "8">>}

\* Mutant of ROOM_CODE_PATTERN: the length is not checked.
ROOM_CODE_PATTERN_AnyLength(code) == \A i \in DOMAIN code : code[i] \in LowerAlnum

\* Mutant of ROOM_CODE_PATTERN: the characters are not checked.
ROOM_CODE_PATTERN_AnyCharacter(code) == Len(code) = RoomCodeLength

ROOM_CODE_PATTERN(code) ==
    /\ Len(code) = RoomCodeLength
    /\ \A i \in DOMAIN code : code[i] \in LowerAlnum

buildTopic(roomCode) == <<TOPIC_PREFIX, roomCode>>

RoomA == <<"a", "7", "x", "2", "k", "9", "m", "1">>
RoomB == <<"b", "8", "y", "3", "l", "0", "n", "2">>

createRoomCodeResults == {RoomB}

RoomInputs ==
    { RoomA,
      <<" ", "A", "7", "X", "2", "K", "9", "M", "1", " ">>,
      RoomB,
      <<"a", "7", "x">>,
      <<"a", "7", "x", "2", "k", "9", "m", "!">>,
      <<>> }

(***************************************************************************)
(* Inbound envelopes and socket frames.  A payload is a record that may    *)
(* lack any of its fields; a field that is present has the right type.     *)
(***************************************************************************)
PayloadLikes(S) == SeqsUpTo(S, MaxPayloadLen)

PayloadVersions == 0..MaxVersion

LikesPayloads(S) ==
    [likes : PayloadLikes(S), likeVersion : PayloadVersions]
    \cup [likes : PayloadLikes(S)]
    \cup [likeVersion : PayloadVersions]

UsersPayloads(S) ==
    { [users |-> u] :
        u \in { <<>>,
                <<[userId |-> PartnerId, likes |-> <<CHOOSE n \in S : TRUE>>, likeVersion |-> 1]>>,
                <<[userId |-> InstanceId, likes |-> <<>>, likeVersion |-> 0],
                  [userId |-> PartnerId]>> } }

\* The envelopes a sender can put on the topic.
MessagesFrom(sender, S) ==
    [type : {"state_snapshot", "likes_batch"}, senderId : {sender}, payload : LikesPayloads(S)]
    \cup [type : {"resync_response"}, senderId : {sender}, payload : LikesPayloads(OneName)]
    \cup [type : {"join"}, senderId : {sender}, payload : [likeVersion : {0}]]
    \cup [type : {"resync_request"}, senderId : {sender}, payload : [knownVersion : {0}]]
    \cup [type : {"unknown"}, senderId : {sender}, payload : [likeVersion : {0}]]
    \cup [type : {"state_snapshot"}, senderId : {sender}, payload : UsersPayloads(S)]

\* The client's own envelopes, as the relay echoes them.
EchoMessages(S) ==
    { m \in MessagesFrom(InstanceId, S) :
        /\ ~("users" \in DOMAIN m.payload)
        /\ m.type \in {"state_snapshot", "likes_batch", "resync_response"} =>
              /\ "likes" \in DOMAIN m.payload
              /\ "likeVersion" \in DOMAIN m.payload
              /\ m.payload.likes \in UniqueSeqs(OneName) \ {<<>>} }

Messages(S) == MessagesFrom(PartnerId, S) \cup EchoMessages(S)

HasLikes(p) == "likes" \in DOMAIN p
HasVersion(p) == "likeVersion" \in DOMAIN p
HasUsers(p) == "users" \in DOMAIN p

Frame(topic, message) == [event |-> "message", topic |-> topic, message |-> <<message>>]

\* A frame that is not a message event, a frame of another topic, and a frame
\* whose message is not an object.
OtherFrames(topic, message) ==
    { [event |-> "open", topic |-> topic, message |-> <<>>],
      [event |-> "message", topic |-> buildTopic(<<"o", "t", "h", "e", "r", "0", "0", "0">>),
       message |-> <<message>>],
      [event |-> "message", topic |-> topic, message |-> <<>>] }

(***************************************************************************)
(* State.                                                                  *)
(***************************************************************************)
VARIABLES
    likes,                \* storage.js: the like list in localStorage
    storedPartnerLikes,   \* storage.js: the persisted partner like set
    sessionTopic,         \* storage.js: the persisted room code
    myLikeVersion,        \* sessionSync.js
    pendingLikeBuffer,    \* sessionSync.js: a Set, in insertion order
    debounceTimer,        \* sessionSync.js: TRUE while the timer is armed
    partnerState,         \* sessionSync.js: [likes, likeVersion]
    knownMatches,         \* sessionSync.js
    currentTopic,         \* ntfySession.js
    socket,               \* ntfySession.js: the generation of the current WebSocket
    sessionGeneration,    \* ntfySession.js
    status,               \* ntfySession.js
    callbacksSet,         \* ntfySession.js: initPeerSession has run
    ws,                   \* the WebSocket objects made by openSocket, by generation
    published,            \* envelopes posted (fetch) by the last step
    events,               \* callbacks invoked by the last step
    lastOp,               \* the last step taken
    batchesPublished,     \* likes_batch envelopes posted since the last join
    notifiedNames,        \* names notifyLike took since the debounce timer was last idle
    spouseLikes,          \* peerSession.js
    hasSpouseJoined,      \* peerSession.js
    reconnectAttempt,     \* peerSession.js
    reconnectTimer,       \* peerSession.js: the pending tryConnect timer, or NoTimer
    isReconnecting,       \* peerSession.js
    connectPromise,       \* peerSession.js: the socket whose promise is pending, or NoSocket
    toPartner,            \* envelopes posted to the room, not yet received by the partner
    toLocal,              \* envelopes of the partner in flight to the local socket
    partner               \* the partner client: [joined, likes, likeVersion, status] and
                          \* heardVersion, the highest version it was sent

storageVars == <<likes, storedPartnerLikes, sessionTopic>>
syncVars == <<myLikeVersion, pendingLikeBuffer, debounceTimer, partnerState, knownMatches>>
sessionVars == <<currentTopic, socket, sessionGeneration, status, callbacksSet, ws>>
historyVars == <<batchesPublished, notifiedNames>>
peerVars == <<spouseLikes, hasSpouseJoined, reconnectAttempt, reconnectTimer, isReconnecting,
              connectPromise>>
pairVars == <<toPartner, toLocal, partner>>
vars == <<storageVars, syncVars, sessionVars, published, events, lastOp, historyVars,
          peerVars, pairVars>>

DISCONNECTED == "DISCONNECTED"
CONNECTING == "CONNECTING"
IN_ROOM == "IN_ROOM"
CONNECTED == "CONNECTED"
ERROR == "ERROR"

EmptyPartnerState == [likes |-> {}, likeVersion |-> 0]

\* The module as loaded, over a localStorage left by earlier runs.
Loaded(likeLists, S, rooms) ==
    /\ likes \in likeLists
    /\ storedPartnerLikes \in SUBSET S
    /\ sessionTopic \in rooms
    /\ myLikeVersion = 0
    /\ pendingLikeBuffer = <<>>
    /\ debounceTimer = FALSE
    /\ partnerState = EmptyPartnerState
    /\ knownMatches = {}
    /\ currentTopic = NoTopic
    /\ socket = NoSocket
    /\ sessionGeneration = 0
    /\ status = DISCONNECTED
    /\ callbacksSet = FALSE
    /\ ws = <<>>
    /\ published = <<>>
    /\ events = <<>>
    /\ lastOp = [op |-> "load"]
    /\ batchesPublished = 0
    /\ notifiedNames = {}
    /\ spouseLikes = {}
    /\ hasSpouseJoined = FALSE
    /\ reconnectAttempt = 0
    /\ reconnectTimer = NoTimer
    /\ isReconnecting = FALSE
    /\ connectPromise = NoSocket
    /\ toPartner = {}
    /\ toLocal = {}
    /\ partner = [joined |-> FALSE, likes |-> {}, likeVersion |-> 0, status |-> DISCONNECTED,
                  heardVersion |-> 0]

Init == Loaded(UniqueSeqs(OneName), OneName, {NoTopic, RoomA})

SyncInit == Loaded(UniqueSeqs(Names), Names, {NoTopic})

(***************************************************************************)
(* Callbacks handed to initPeerSession, as the records logged in events.   *)
(***************************************************************************)
MatchFound(name) == [cb |-> "onMatchFound", name |-> name]
MatchesUpdated(matches) == [cb |-> "onMatchesUpdated", matches |-> matches]
ConnectionChange(connected) == [cb |-> "onConnectionChange", connected |-> connected]
StatusChange(nextStatus) == [cb |-> "onStatusChange", status |-> nextStatus]

\* resolve() or reject() of the promise joinSession awaits, logged with the callbacks.
Settled(outcome) == [cb |-> "settled", outcome |-> outcome]

(***************************************************************************)
(* The storage helpers the session modules import from storage.js: the     *)
(* value each getter returns and the value each setter leaves under its    *)
(* localStorage key.                                                       *)
(***************************************************************************)
getInstanceId == InstanceId

getPartnerLikes == storedPartnerLikes

setPartnerLikes(partnerLikes) == partnerLikes

clearPartnerLikes == {}

getSessionTopic == sessionTopic

setSessionTopic(topic) == topic

clearSessionTopic == NoTopic

(***************************************************************************)
(* ntfySession.js: publishMessage.  The envelopes it posts, given the room *)
(* that is current when it is called.                                      *)
(***************************************************************************)
publishMessage(type, payload, topic) ==
    IF topic = NoTopic
    THEN <<>>
    ELSE <<[type |-> type, roomId |-> topic, senderId |-> getInstanceId, payload |-> payload]>>

CountBatches(envelopes) ==
    Cardinality({i \in DOMAIN envelopes : envelopes[i].type = "likes_batch"})

(***************************************************************************)
(* sessionSync.js: the pure parts.                                         *)
(***************************************************************************)
\* Mutant of getMatches: the filter on the partner's likes is lost.
getMatchesUnfiltered(lk, partnerLikes) == lk

getMatches(lk, partnerLikes) == SelectSeq(lk, LAMBDA name : name \in partnerLikes)

\* Mutant of SetAdd: an array push, which keeps duplicates.
SetAddPush(buffer, name) == Append(buffer, name)

\* Set.prototype.add on a Set kept in insertion order.
SetAdd(buffer, name) == IF name \in ToSet(buffer) THEN buffer ELSE Append(buffer, name)

\* new Set(array), [...set]: the order is not kept, the duplicates are dropped.
NewSet(array) == ToSet(array)

\* Mutant of addAll: the batch replaces the cached set.
addAllReplacing(partnerLikes, incomingLikes) == ToSet(incomingLikes)

\* for (const like of incomingLikes) partnerState.likes.add(like)
addAll(partnerLikes, incomingLikes) == partnerLikes \cup ToSet(incomingLikes)

\* Mutant of completesMatch: the local like list is not consulted.
completesMatchRemoteOnly(name, lk, partnerLikes, known) ==
    /\ name \in partnerLikes
    /\ name \notin known

\* notifyLike: the test that lets onMatchFound fire.
completesMatch(name, lk, partnerLikes, known) ==
    /\ name \in partnerLikes
    /\ name \in ToSet(getMatches(lk, partnerLikes))
    /\ name \notin known

\* Mutant of snapshotBody: the version is not sent along.
snapshotBodyUnversioned(lk, version) == [likes |-> lk, likeVersion |-> 0]

snapshotBody(lk, version) == [likes |-> lk, likeVersion |-> version]

\* resolveSnapshotPayload: <<>> stands for null.
resolveSnapshotPayload(message) ==
    LET payload == message.payload IN
    IF HasUsers(payload)
    THEN LET found == SelectSeq(payload.users, LAMBDA entry : entry.userId = message.senderId)
         IN  IF found = <<>>
             THEN <<>>
             ELSE <<[likes |-> IF HasLikes(found[1]) THEN found[1].likes ELSE <<>>,
                     likeVersion |-> IF HasVersion(found[1]) THEN found[1].likeVersion ELSE 0]>>
    ELSE <<[likes |-> IF HasLikes(payload) THEN payload.likes ELSE <<>>,
            likeVersion |-> IF HasVersion(payload) THEN payload.likeVersion ELSE 0]>>

\* Mutant of acceptsBatch: a batch is let through whatever its version.
acceptsBatchUnchecked(payload, remoteVersion) == HasVersion(payload)

\* Mutant of acceptsBatch: any newer version is let through.
acceptsNewerBatch(payload, remoteVersion) ==
    /\ "likeVersion" \in DOMAIN payload
    /\ payload.likeVersion > remoteVersion

\* handleLikesBatch: the test that lets a batch through.
acceptsBatch(payload, remoteVersion) ==
    /\ HasVersion(payload)
    /\ payload.likeVersion = remoteVersion + 1

\* Mutant of isOwnMessage: no echo suppression.
isOwnMessageNever(message) == FALSE

\* handleMessage: the echo test.
isOwnMessage(message) == message.senderId = getInstanceId

\* onConnected: the status change of the first partner state of a session.
onConnected(st) == IF st # CONNECTED THEN <<StatusChange(CONNECTED)>> ELSE <<>>

(***************************************************************************)
(* sessionSync.js: the handlers, as the effect of one call on the engine,  *)
(* the persisted partner likes, the status, the posts and the callbacks.   *)
(***************************************************************************)
NoEffect ==
    /\ UNCHANGED <<partnerState, storedPartnerLikes, knownMatches, status>>
    /\ published' = <<>>
    /\ events' = <<>>

\* Mutant of partnerStateChanged: the inbound change celebrates the match it
\* completes.
partnerStateChangedCelebrating(nextState) ==
    /\ partnerState' = nextState
    /\ storedPartnerLikes' = setPartnerLikes(nextState.likes)
    /\ knownMatches' = NewSet(getMatches(likes, nextState.likes))
    /\ events' = [i \in 1..Len(SelectSeq(likes, LAMBDA name :
                                   name \in nextState.likes \ knownMatches)) |->
                     MatchFound(SelectSeq(likes, LAMBDA name :
                                   name \in nextState.likes \ knownMatches)[i])]
                 \o <<MatchesUpdated(getMatches(likes, nextState.likes)), ConnectionChange(TRUE)>>
                 \o onConnected(status)
    /\ status' = CONNECTED
    /\ published' = <<>>

\* Mutant of partnerStateChanged: the new partner likes are not persisted.
partnerStateChangedUnpersisted(nextState) ==
    /\ partnerState' = nextState
    /\ UNCHANGED storedPartnerLikes
    /\ knownMatches' = NewSet(getMatches(likes, nextState.likes))
    /\ events' = <<MatchesUpdated(getMatches(likes, nextState.likes)), ConnectionChange(TRUE)>>
                 \o onConnected(status)
    /\ status' = CONNECTED
    /\ published' = <<>>

\* emitMatches after the partner state became nextState, then
\* onConnectionChange(true) and onConnected.
partnerStateChanged(nextState) ==
    /\ partnerState' = nextState
    /\ storedPartnerLikes' = setPartnerLikes(nextState.likes)
    /\ knownMatches' = NewSet(getMatches(likes, nextState.likes))
    /\ events' = <<MatchesUpdated(getMatches(likes, nextState.likes)), ConnectionChange(TRUE)>>
                 \o onConnected(status)
    /\ status' = CONNECTED
    /\ published' = <<>>

\* Mutant of applyPartnerSnapshot: the snapshot is merged into the cached set.
applyPartnerSnapshotMerging(snapshotPayload) ==
    partnerStateChanged(
        [likes |-> partnerState.likes
                   \cup NewSet(IF HasLikes(snapshotPayload) THEN snapshotPayload.likes ELSE <<>>),
         likeVersion |-> IF HasVersion(snapshotPayload) THEN snapshotPayload.likeVersion ELSE 0])

applyPartnerSnapshot(snapshotPayload) ==
    partnerStateChanged(
        [likes |-> NewSet(IF HasLikes(snapshotPayload) THEN snapshotPayload.likes ELSE <<>>),
         likeVersion |-> IF HasVersion(snapshotPayload) THEN snapshotPayload.likeVersion ELSE 0])

publishSnapshot ==
    /\ published' = publishMessage("state_snapshot", snapshotBody(likes, myLikeVersion), currentTopic)
    /\ events' = <<>>
    /\ UNCHANGED <<partnerState, storedPartnerLikes, knownMatches, status>>

handleLikesBatch(message) ==
    LET incomingLikes == IF HasLikes(message.payload) THEN message.payload.likes ELSE <<>>
    IN  IF ~acceptsBatch(message.payload, partnerState.likeVersion)
        THEN /\ published' = publishMessage("resync_request",
                                 [knownVersion |-> partnerState.likeVersion], currentTopic)
             /\ events' = <<>>
             /\ UNCHANGED <<partnerState, storedPartnerLikes, knownMatches, status>>
        ELSE partnerStateChanged(
                 [likes |-> addAll(partnerState.likes, incomingLikes),
                  likeVersion |-> message.payload.likeVersion])

handleMessage(message) ==
    IF isOwnMessage(message)
    THEN NoEffect
    ELSE CASE message.type = "join" -> publishSnapshot
           [] message.type = "state_snapshot" ->
                IF resolveSnapshotPayload(message) = <<>>
                THEN NoEffect
                ELSE applyPartnerSnapshot(resolveSnapshotPayload(message)[1])
           [] message.type = "likes_batch" -> handleLikesBatch(message)
           [] message.type = "resync_request" -> publishSnapshot
           [] message.type = "resync_response" ->
                applyPartnerSnapshot(
                    [likes |-> IF HasLikes(message.payload) THEN message.payload.likes ELSE <<>>,
                     likeVersion |-> IF HasVersion(message.payload)
                                     THEN message.payload.likeVersion
                                     ELSE partnerState.likeVersion])
           [] OTHER -> NoEffect

\* Mutant of prepareForJoin: the pending likes and their timer survive the join.
prepareForJoinKeepingPending ==
    /\ partnerState' = EmptyPartnerState
    /\ knownMatches' = {}
    /\ storedPartnerLikes' = clearPartnerLikes
    /\ myLikeVersion' = 0
    /\ UNCHANGED <<debounceTimer, pendingLikeBuffer>>

\* Mutant of prepareForJoin: the local version survives the join.
prepareForJoinKeepingVersion ==
    /\ debounceTimer' = FALSE
    /\ pendingLikeBuffer' = <<>>
    /\ partnerState' = EmptyPartnerState
    /\ knownMatches' = {}
    /\ storedPartnerLikes' = clearPartnerLikes
    /\ UNCHANGED myLikeVersion

\* clearPendingLikes, resetPartnerState and myLikeVersion = 0.
prepareForJoin ==
    /\ debounceTimer' = FALSE
    /\ pendingLikeBuffer' = <<>>
    /\ partnerState' = EmptyPartnerState
    /\ knownMatches' = {}
    /\ storedPartnerLikes' = clearPartnerLikes
    /\ myLikeVersion' = 0

(***************************************************************************)
(* storage.js: the like list.                                              *)
(***************************************************************************)
AddLike(name) ==
    /\ UNCHANGED <<peerVars, pairVars>>
    /\ callbacksSet
    /\ likes' = IF name \in ToSet(likes) THEN likes ELSE Append(likes, name)
    /\ published' = <<>>
    /\ events' = <<>>
    /\ lastOp' = [op |-> "addLike"]
    /\ UNCHANGED <<storedPartnerLikes, sessionTopic, syncVars, sessionVars, historyVars>>

RemoveLike(name) ==
    /\ UNCHANGED <<peerVars, pairVars>>
    /\ callbacksSet
    /\ likes' = SelectSeq(likes, LAMBDA n : n # name)
    /\ published' = <<>>
    /\ events' = <<>>
    /\ lastOp' = [op |-> "removeLike"]
    /\ UNCHANGED <<storedPartnerLikes, sessionTopic, syncVars, sessionVars, historyVars>>

(***************************************************************************)
(* ntfySession.js: initPeerSession, with sessionSync.js                    *)
(* initializeFromStorage.                                                  *)
(***************************************************************************)
InitPeerSession ==
    /\ UNCHANGED <<peerVars, pairVars>>
    /\ ~callbacksSet
    /\ callbacksSet' = TRUE
    /\ partnerState' = [likes |-> getPartnerLikes, likeVersion |-> 0]
    /\ knownMatches' = NewSet(getMatches(likes, getPartnerLikes))
    /\ status' = DISCONNECTED
    /\ events' = <<MatchesUpdated(getMatches(likes, getPartnerLikes)),
                   ConnectionChange(FALSE), StatusChange(DISCONNECTED)>>
    /\ published' = <<>>
    /\ lastOp' = [op |-> "initPeerSession"]
    /\ UNCHANGED <<storageVars, myLikeVersion, pendingLikeBuffer, debounceTimer,
                   currentTopic, socket, sessionGeneration, ws, historyVars>>

(***************************************************************************)
(* sessionSync.js: notifyLike and the debounce timer's flushPendingLikes.  *)
(***************************************************************************)
\* Mutant of notifyLike: the test of the room and of the name is lost.
notifyLikeUnguarded(name, lk) ==
    /\ pendingLikeBuffer' = SetAdd(pendingLikeBuffer, name)
    /\ notifiedNames' = notifiedNames \cup {name}
    /\ IF completesMatch(name, lk, partnerState.likes, knownMatches)
       THEN /\ events' = <<MatchFound(name),
                           MatchesUpdated(getMatches(lk, partnerState.likes))>>
            /\ knownMatches' = NewSet(getMatches(lk, partnerState.likes))
       ELSE /\ events' = <<>>
            /\ UNCHANGED knownMatches
    /\ debounceTimer' = TRUE

\* notifyLike, given the like list getLikes() returns when it is called.
notifyLike(name, lk) ==
    IF currentTopic = NoTopic \/ name = ""
    THEN /\ events' = <<>>
         /\ UNCHANGED <<pendingLikeBuffer, knownMatches, debounceTimer, notifiedNames>>
    ELSE /\ pendingLikeBuffer' = SetAdd(pendingLikeBuffer, name)
         /\ notifiedNames' = notifiedNames \cup {name}
         /\ IF completesMatch(name, lk, partnerState.likes, knownMatches)
            THEN /\ events' = <<MatchFound(name),
                                MatchesUpdated(getMatches(lk, partnerState.likes))>>
                 /\ knownMatches' = NewSet(getMatches(lk, partnerState.likes))
            ELSE /\ events' = <<>>
                 /\ UNCHANGED knownMatches
         /\ debounceTimer' = TRUE

NotifyLike(name) ==
    /\ UNCHANGED <<peerVars, pairVars>>
    /\ callbacksSet
    /\ lastOp' = [op |-> "notifyLike", name |-> name]
    /\ published' = <<>>
    /\ notifyLike(name, likes)
    /\ UNCHANGED <<storageVars, myLikeVersion, partnerState, sessionVars, batchesPublished>>

isConnected == status = CONNECTED

\* app.js handleSwipeRight for the name on top of the deck: addLike, then
\* notifyLike if the partner is connected.
HandleSwipeRight(name) ==
    /\ UNCHANGED <<peerVars, pairVars>>
    /\ callbacksSet
    /\ likes' = IF name \in ToSet(likes) THEN likes ELSE Append(likes, name)
    /\ lastOp' = [op |-> "handleSwipeRight", name |-> name]
    /\ published' = <<>>
    /\ IF isConnected
       THEN notifyLike(name, likes')
       ELSE /\ events' = <<>>
            /\ UNCHANGED <<pendingLikeBuffer, knownMatches, debounceTimer, notifiedNames>>
    /\ UNCHANGED <<storedPartnerLikes, sessionTopic, myLikeVersion, partnerState, sessionVars,
                   batchesPublished>>

\* flushPendingLikes; ok tells whether the fetch of the batch succeeds.  A
\* fetch that fails posts nothing, and the catch only logs.
flushPendingLikes(ok) ==
    /\ debounceTimer
    /\ debounceTimer' = FALSE
    /\ events' = <<>>
    /\ lastOp' = IF ok
                 THEN [op |-> "flushPendingLikes"]
                 ELSE [op |-> "flushPendingLikes", publishFailed |-> TRUE]
    /\ IF currentTopic = NoTopic \/ pendingLikeBuffer = <<>>
       THEN /\ ok
            /\ published' = <<>>
            /\ UNCHANGED <<pendingLikeBuffer, myLikeVersion>>
       ELSE /\ pendingLikeBuffer' = <<>>
            /\ myLikeVersion' = myLikeVersion + 1
            /\ published' = IF ok
                            THEN publishMessage("likes_batch",
                                     [likes |-> pendingLikeBuffer,
                                      likeVersion |-> myLikeVersion + 1],
                                     currentTopic)
                            ELSE <<>>
    /\ batchesPublished' = batchesPublished + CountBatches(published')
    /\ notifiedNames' = {}
    /\ UNCHANGED <<storageVars, partnerState, knownMatches, sessionVars>>

FlushPendingLikes == flushPendingLikes(TRUE) /\ UNCHANGED <<peerVars, pairVars>>

(***************************************************************************)
(* ntfySession.js: joinSession with openSocket, and disconnect.            *)
(***************************************************************************)
NewSocket(topicName) ==
    [topicName |-> topicName, readyState |-> "CONNECTING", settled |-> FALSE,
     timeoutId |-> TRUE, handshake |-> "idle"]

\* Mutant of closeSocket: the socket is dropped without close().
closeSocketLeavingOpen(sockets, current) == sockets

\* closeSocket: socket.close() on the current socket, if any.  close() leaves a
\* socket that is not closed yet in the CLOSING state.
closeSocket(sockets, current) ==
    IF current # NoSocket /\ sockets[current].readyState # "CLOSED"
    THEN [sockets EXCEPT ![current].readyState = "CLOSING"]
    ELSE sockets

\* if (!settled) { settled = true; clearTimeout(timeoutId); resolve() or reject() }
settle(w) == IF w.settled THEN w ELSE [w EXCEPT !.settled = TRUE, !.timeoutId = FALSE]

settleEvents(w, outcome) == IF w.settled THEN <<>> ELSE <<Settled(outcome)>>

joinSession(roomCode, opName) ==
    LET normalizedRoom == normalizeRoomCode(roomCode)
        generation == sessionGeneration + 1
        closed == closeSocket(ws, socket)
    IN  /\ callbacksSet
        /\ UNCHANGED <<peerVars, pairVars>>
        /\ published' = <<>>
        /\ IF ~ROOM_CODE_PATTERN(normalizedRoom)
           THEN /\ lastOp' = [op |-> opName, threw |-> TRUE]
                /\ events' = <<>>
                /\ UNCHANGED <<storageVars, syncVars, sessionVars, historyVars>>
           ELSE /\ lastOp' = [op |-> opName, threw |-> FALSE]
                /\ prepareForJoin
                /\ currentTopic' = normalizedRoom
                /\ sessionTopic' = setSessionTopic(normalizedRoom)
                /\ status' = CONNECTING
                /\ events' = <<StatusChange(CONNECTING)>>
                /\ sessionGeneration' = generation
                /\ ws' = [g \in DOMAIN closed \cup {generation} |->
                            IF g = generation
                            THEN NewSocket(buildTopic(normalizedRoom))
                            ELSE closed[g]]
                /\ socket' = generation
                /\ batchesPublished' = 0
                /\ notifiedNames' = {}
                /\ UNCHANGED <<likes, callbacksSet>>

\* getRoomFromUrl, given the value of the room parameter: NoTopic stands for
\* null.
getRoomFromUrl(room) ==
    IF ROOM_CODE_PATTERN(normalizeRoomCode(room)) THEN normalizeRoomCode(room) ELSE NoTopic

JoinSession(roomCode) == joinSession(roomCode, "joinSession")

CreateNewSession == \E roomCode \in createRoomCodeResults : joinSession(roomCode, "createNewSession")

InitializeAndReconnect ==
    IF getSessionTopic # NoTopic /\ ROOM_CODE_PATTERN(normalizeRoomCode(getSessionTopic))
    THEN joinSession(getSessionTopic, "initializeAndReconnect")
    ELSE \E roomCode \in createRoomCodeResults : joinSession(roomCode, "initializeAndReconnect")

\* Mutant of Disconnect: the pending likes and their timer are left alone.
DisconnectKeepingPending ==
    /\ UNCHANGED <<peerVars, pairVars>>
    /\ callbacksSet
    /\ ws' = closeSocket(ws, socket)
    /\ socket' = NoSocket
    /\ sessionGeneration' = sessionGeneration + 1
    /\ currentTopic' = NoTopic
    /\ prepareForJoinKeepingPending
    /\ sessionTopic' = clearSessionTopic
    /\ status' = DISCONNECTED
    /\ events' = <<ConnectionChange(FALSE), StatusChange(DISCONNECTED),
                   MatchesUpdated(getMatches(likes, EmptyPartnerState.likes))>>
    /\ published' = <<>>
    /\ lastOp' = [op |-> "disconnect", dropped |-> pendingLikeBuffer]
    /\ notifiedNames' = {}
    /\ UNCHANGED <<likes, callbacksSet, batchesPublished>>

\* disconnect; lastOp keeps the names that waited for the debounce timer.
Disconnect ==
    /\ UNCHANGED <<peerVars, pairVars>>
    /\ callbacksSet
    /\ ws' = closeSocket(ws, socket)
    /\ socket' = NoSocket
    /\ sessionGeneration' = sessionGeneration + 1
    /\ currentTopic' = NoTopic
    /\ prepareForJoin
    /\ sessionTopic' = clearSessionTopic
    /\ status' = DISCONNECTED
    /\ events' = <<ConnectionChange(FALSE), StatusChange(DISCONNECTED),
                   MatchesUpdated(getMatches(likes, EmptyPartnerState.likes))>>
    /\ published' = <<>>
    /\ lastOp' = [op |-> "disconnect", dropped |-> pendingLikeBuffer]
    /\ notifiedNames' = {}
    /\ UNCHANGED <<likes, callbacksSet, batchesPublished>>

\* disconnect of the session module with the auto-create policy: the
\* disconnect above, then `return createNewSession()`, which runs joinSession up
\* to its await in the same call.  storageCalls lists the session-topic calls
\* made on storage, in order.
DisconnectAndCreate ==
    \E roomCode \in createRoomCodeResults :
        LET normalizedRoom == normalizeRoomCode(roomCode)
            generation == sessionGeneration + 2
            closed == closeSocket(ws, socket)
        IN  /\ callbacksSet
            /\ UNCHANGED <<peerVars, pairVars>>
            /\ prepareForJoin
            /\ published' = <<>>
            /\ notifiedNames' = {}
            /\ IF ~ROOM_CODE_PATTERN(normalizedRoom)
               THEN /\ lastOp' = [op |-> "disconnectAndCreate", threw |-> TRUE,
                                  storageCalls |-> <<"clearSessionTopic">>]
                    /\ ws' = closed
                    /\ socket' = NoSocket
                    /\ sessionGeneration' = sessionGeneration + 1
                    /\ currentTopic' = NoTopic
                    /\ sessionTopic' = clearSessionTopic
                    /\ status' = DISCONNECTED
                    /\ events' = <<ConnectionChange(FALSE), StatusChange(DISCONNECTED),
                                   MatchesUpdated(getMatches(likes, EmptyPartnerState.likes))>>
                    /\ UNCHANGED batchesPublished
               ELSE /\ lastOp' = [op |-> "disconnectAndCreate", threw |-> FALSE,
                                  storageCalls |-> <<"clearSessionTopic", "setSessionTopic">>]
                    /\ ws' = [g \in DOMAIN closed \cup {generation} |->
                                IF g = generation
                                THEN NewSocket(buildTopic(normalizedRoom))
                                ELSE closed[g]]
                    /\ socket' = generation
                    /\ sessionGeneration' = generation
                    /\ currentTopic' = normalizedRoom
                    /\ sessionTopic' = setSessionTopic(normalizedRoom)
                    /\ status' = CONNECTING
                    /\ events' = <<ConnectionChange(FALSE), StatusChange(DISCONNECTED),
                                   MatchesUpdated(getMatches(likes, EmptyPartnerState.likes)),
                                   StatusChange(CONNECTING)>>
                    /\ batchesPublished' = 0
            /\ UNCHANGED <<likes, callbacksSet>>

(***************************************************************************)
(* ntfySession.js: the callbacks openSocket installs on a WebSocket, the   *)
(* connect timeout, and the continuations of the join handshake.           *)
(***************************************************************************)
\* parseIncomingEvent: <<>> stands for null (and for a JSON.parse that throws,
\* which ws.onmessage catches).
parseIncomingEvent(frame, expectedTopicName) ==
    IF frame.event # "message" \/ frame.topic # expectedTopicName
    THEN <<>>
    ELSE frame.message

\* Mutant of isStale: no callback is taken for stale.
isStaleNever(generation) == FALSE

\* The guard every socket callback starts with.
isStale(generation) == generation # sessionGeneration

\* ws.onopen up to the first await: sendJoinHandshake posts join.
onopen(g) ==
    /\ g \in DOMAIN ws
    /\ ws[g].readyState \in {"CONNECTING", "CLOSING"}
    /\ ws[g].handshake = "idle"
    /\ lastOp' = [op |-> "onopen", generation |-> g]
    /\ events' = <<>>
    /\ IF isStale(g)
       THEN /\ ws' = [ws EXCEPT ![g].readyState = IF @ = "CONNECTING" THEN "OPEN" ELSE @]
            /\ published' = <<>>
       ELSE /\ ws' = [ws EXCEPT ![g].readyState = IF @ = "CONNECTING" THEN "OPEN" ELSE @,
                                ![g].handshake = "join"]
            /\ published' = publishMessage("join", [likeVersion |-> myLikeVersion], currentTopic)
    /\ UNCHANGED <<storageVars, syncVars, currentTopic, socket, sessionGeneration, status,
                   callbacksSet, historyVars>>

WsOpen(g) == onopen(g) /\ UNCHANGED <<peerVars, pairVars>>

\* The rest of ws.onopen once sendJoinHandshake has returned or thrown.
handshakeDone(g, ok) ==
    /\ status' = IF ok THEN IN_ROOM ELSE ERROR
    /\ events' = <<StatusChange(IF ok THEN IN_ROOM ELSE ERROR)>>
                 \o settleEvents(ws[g], IF ok THEN "resolved" ELSE "rejected")
    /\ ws' = [ws EXCEPT ![g] = settle([ws[g] EXCEPT !.handshake = "done"])]

\* The fetch of the join envelope completes: publishSnapshot, or the catch.
joinPosted(g, ok) ==
    /\ g \in DOMAIN ws
    /\ ws[g].handshake = "join"
    /\ lastOp' = [op |-> "joinPosted", generation |-> g, ok |-> ok]
    /\ IF ok /\ currentTopic # NoTopic
       THEN /\ published' = publishMessage("state_snapshot",
                                snapshotBody(likes, myLikeVersion), currentTopic)
            /\ ws' = [ws EXCEPT ![g].handshake = "snapshot"]
            /\ events' = <<>>
            /\ UNCHANGED status
       ELSE /\ published' = <<>>
            /\ handshakeDone(g, ok)
    /\ UNCHANGED <<storageVars, syncVars, currentTopic, socket, sessionGeneration,
                   callbacksSet, historyVars>>

HandshakeJoinPosted(g, ok) == joinPosted(g, ok) /\ UNCHANGED <<peerVars, pairVars>>

\* The fetch of the snapshot envelope completes.
HandshakeSnapshotPosted(g, ok) ==
    /\ UNCHANGED <<peerVars, pairVars>>
    /\ g \in DOMAIN ws
    /\ ws[g].handshake = "snapshot"
    /\ lastOp' = [op |-> "snapshotPosted", generation |-> g, ok |-> ok]
    /\ published' = <<>>
    /\ handshakeDone(g, ok)
    /\ UNCHANGED <<storageVars, syncVars, currentTopic, socket, sessionGeneration,
                   callbacksSet, historyVars>>

\* The setTimeout callback of openSocket.
ConnectTimeout(g) ==
    /\ UNCHANGED <<peerVars, pairVars>>
    /\ g \in DOMAIN ws
    /\ ws[g].timeoutId
    /\ lastOp' = [op |-> "connectTimeout", generation |-> g]
    /\ published' = <<>>
    /\ IF ~ws[g].settled
       THEN /\ ws' = [ws EXCEPT ![g].timeoutId = FALSE, ![g].settled = TRUE]
            /\ status' = ERROR
            /\ events' = <<StatusChange(ERROR), Settled("rejected")>>
       ELSE /\ ws' = [ws EXCEPT ![g].timeoutId = FALSE]
            /\ events' = <<>>
            /\ UNCHANGED status
    /\ UNCHANGED <<storageVars, syncVars, currentTopic, socket, sessionGeneration,
                   callbacksSet, historyVars>>

onmessage(g, frame) ==
    /\ g \in DOMAIN ws
    /\ ws[g].readyState \in {"OPEN", "CLOSING"}
    /\ lastOp' = [op |-> "onmessage", generation |-> g, event |-> frame.event,
                  topic |-> frame.topic,
                  type |-> IF frame.message = <<>> THEN "none" ELSE frame.message[1].type,
                  senderId |-> IF frame.message = <<>> THEN "none" ELSE frame.message[1].senderId]
    /\ IF isStale(g) \/ parseIncomingEvent(frame, ws[g].topicName) = <<>>
       THEN NoEffect
       ELSE handleMessage(parseIncomingEvent(frame, ws[g].topicName)[1])
    /\ batchesPublished' = batchesPublished + CountBatches(published')
    /\ UNCHANGED <<likes, sessionTopic, myLikeVersion, pendingLikeBuffer, debounceTimer,
                   currentTopic, socket, sessionGeneration, callbacksSet, ws, notifiedNames>>

WsMessage(g, frame) == onmessage(g, frame) /\ UNCHANGED <<peerVars, pairVars>>

WsError(g) ==
    /\ UNCHANGED <<peerVars, pairVars>>
    /\ g \in DOMAIN ws
    /\ ws[g].readyState # "CLOSED"
    /\ lastOp' = [op |-> "onerror", generation |-> g]
    /\ published' = <<>>
    /\ IF isStale(g)
       THEN /\ events' = <<>>
            /\ UNCHANGED <<status, ws>>
       ELSE /\ status' = ERROR
            /\ events' = <<StatusChange(ERROR), ConnectionChange(FALSE)>>
                         \o settleEvents(ws[g], "rejected")
            /\ ws' = [ws EXCEPT ![g] = settle(ws[g])]
    /\ UNCHANGED <<storageVars, syncVars, currentTopic, socket, sessionGeneration,
                   callbacksSet, historyVars>>

WsClose(g) ==
    /\ UNCHANGED <<peerVars, pairVars>>
    /\ g \in DOMAIN ws
    /\ ws[g].readyState # "CLOSED"
    /\ lastOp' = [op |-> "onclose", generation |-> g]
    /\ published' = <<>>
    /\ ws' = [ws EXCEPT ![g].readyState = "CLOSED"]
    /\ IF isStale(g)
       THEN /\ events' = <<>>
            /\ UNCHANGED status
       ELSE /\ events' = <<ConnectionChange(FALSE)>>
                         \o (IF status # ERROR THEN <<StatusChange(DISCONNECTED)>> ELSE <<>>)
            /\ status' = IF status # ERROR THEN DISCONNECTED ELSE status
    /\ UNCHANGED <<storageVars, syncVars, currentTopic, socket, sessionGeneration,
                   callbacksSet, historyVars>>

(***************************************************************************)
(* peerSession.js (the ntfy module that reconnects).  A call runs to its   *)
(* end, promise continuations included, before any other callback, so each *)
(* handler is a function from the module state at its start to the state   *)
(* at its end.  ws is the sequence of WebSockets made by connectWebSocket; *)
(* a socket records the generation its callbacks captured, whether its     *)
(* promise has settled and how, and who waits for the promise.             *)
(***************************************************************************)
maxAttempts == 5
baseDelay == 2000
maxDelay == 30000
initialDelay == 1000

\* RECONNECT_CONFIG.jitter, one half, as a fraction.
jitterNumerator == 1
jitterDenominator == 2

\* Math.random() draws one of the values random / JitterSteps of [0, 1).
JitterSteps == 8
JitterDraws == 0..(JitterSteps - 1)

Min(a, b) == IF a < b THEN a ELSE b
Max(a, b) == IF a > b THEN a ELSE b

\* Mutant of calculateBackoffDelay: the ceiling is lost.
calculateBackoffDelayUncapped(attempt, random) ==
    baseDelay * 2^attempt
    + (baseDelay * 2^attempt * jitterNumerator * random) \div (jitterDenominator * JitterSteps)

\* Math.floor(Math.min(exponentialDelay + jitter, maxDelay)): the floor of the
\* smaller is the smaller of the floors, maxDelay being a whole number.
calculateBackoffDelay(attempt, random) ==
    LET exponentialDelay == baseDelay * 2^attempt
        jitter == (exponentialDelay * jitterNumerator * random)
                  \div (jitterDenominator * JitterSteps)
    IN  Min(exponentialDelay + jitter, maxDelay)

PeerState ==
    [socket |-> socket, currentTopic |-> currentTopic, spouseLikes |-> spouseLikes,
     hasSpouseJoined |-> hasSpouseJoined, reconnectAttempt |-> reconnectAttempt,
     reconnectTimer |-> reconnectTimer, isReconnecting |-> isReconnecting,
     connectPromise |-> connectPromise, sessionGeneration |-> sessionGeneration,
     status |-> status, sessionTopic |-> sessionTopic, ws |-> ws,
     events |-> <<>>, published |-> <<>>, random |-> 0]

\* The step that leaves the module in state st; what the relay does with the
\* messages it published is said by the specification.
PeerStep(st, op) ==
    /\ callbacksSet
    /\ socket' = st.socket
    /\ currentTopic' = st.currentTopic
    /\ spouseLikes' = st.spouseLikes
    /\ hasSpouseJoined' = st.hasSpouseJoined
    /\ reconnectAttempt' = st.reconnectAttempt
    /\ reconnectTimer' = st.reconnectTimer
    /\ isReconnecting' = st.isReconnecting
    /\ connectPromise' = st.connectPromise
    /\ sessionGeneration' = st.sessionGeneration
    /\ status' = st.status
    /\ sessionTopic' = st.sessionTopic
    /\ ws' = st.ws
    /\ events' = st.events
    /\ published' = st.published
    /\ lastOp' = op
    /\ UNCHANGED <<likes, storedPartnerLikes, syncVars, callbacksSet, historyVars>>

setStatus(st, nextStatus) ==
    [st EXCEPT !.status = nextStatus, !.events = Append(@, StatusChange(nextStatus))]

callback(st, event) == [st EXCEPT !.events = Append(@, event)]

clearReconnectTimer(st) == [st EXCEPT !.reconnectTimer = NoTimer]

\* socket.close() on socket id.
closed(st, id) ==
    IF st.ws[id].readyState = "CLOSED" THEN st ELSE [st EXCEPT !.ws[id].readyState = "CLOSING"]

sendLikes(st) ==
    IF st.currentTopic = NoTopic
    THEN st
    ELSE [st EXCEPT !.published =
              Append(@, [topic |-> st.currentTopic, type |-> "likes", likes |-> likes,
                         senderId |-> getInstanceId])]

\* The waiter of a connect promise: joinSession, or tryConnect of the
\* reconnect cycle started in the given generation.
JoinWaiter == [kind |-> "join"]
ReconnectWaiter(generation) == [kind |-> "reconnect", generation |-> generation]

\* What the waiter does once the promise has resolved.
onFulfilled(st, waiter) ==
    IF waiter.kind = "join"
    THEN callback(sendLikes(st), Settled("resolved"))
    ELSE sendLikes([st EXCEPT !.isReconnecting = FALSE, !.reconnectAttempt = 0])

\* What the waiter does once the promise has rejected: the catch of
\* joinSession, or the catch of tryConnect.
onRejected(st, waiter) ==
    IF waiter.kind = "join"
    THEN callback(setStatus([st EXCEPT !.currentTopic = NoTopic,
                                       !.sessionTopic = clearSessionTopic,
                                       !.hasSpouseJoined = FALSE], ERROR),
                  Settled("rejected"))
    ELSE IF st.reconnectAttempt >= maxAttempts
         THEN setStatus([st EXCEPT !.isReconnecting = FALSE, !.reconnectAttempt = 0], IN_ROOM)
         ELSE [st EXCEPT !.reconnectTimer =
                   [generation |-> waiter.generation,
                    delay |-> calculateBackoffDelay(st.reconnectAttempt, st.random)]]

continue(st, waiter, outcome) ==
    IF outcome = "resolved" THEN onFulfilled(st, waiter) ELSE onRejected(st, waiter)

RECURSIVE continueAll(_, _, _)
continueAll(st, waiters, outcome) ==
    IF waiters = <<>>
    THEN st
    ELSE continueAll(continue(st, Head(waiters), outcome), Tail(waiters), outcome)

\* resolve() or reject() of the promise of socket id: the finally of
\* connectWebSocket, then the waiters in the order they attached.
settlePromise(st, id, outcome) ==
    LET done == [st EXCEPT !.ws[id].settled = TRUE, !.ws[id].timeout = FALSE,
                           !.ws[id].outcome = outcome, !.ws[id].waiters = <<>>,
                           !.connectPromise =
                               IF st.ws[id].generation = st.sessionGeneration
                               THEN NoSocket ELSE @]
    IN  continueAll(done, st.ws[id].waiters, outcome)

connectWebSocket(st, topic, waiter) ==
    LET connecting == setStatus(st, CONNECTING)
        id == Len(st.ws) + 1
    IN  IF /\ st.socket # NoSocket
           /\ st.ws[st.socket].readyState = "OPEN"
           /\ st.currentTopic = topic
        THEN onFulfilled(setStatus(connecting,
                                   IF st.hasSpouseJoined THEN CONNECTED ELSE IN_ROOM),
                         waiter)
        ELSE IF st.connectPromise # NoSocket /\ st.currentTopic = topic
        THEN IF connecting.ws[st.connectPromise].outcome = "pending"
             THEN [connecting EXCEPT !.ws[st.connectPromise].waiters = Append(@, waiter)]
             ELSE continue(connecting, waiter, connecting.ws[st.connectPromise].outcome)
        ELSE [(IF st.socket # NoSocket THEN closed(connecting, st.socket) ELSE connecting)
                 EXCEPT !.currentTopic = topic,
                        !.socket = id,
                        !.connectPromise = id,
                        !.ws = Append(@, [topic |-> topic, readyState |-> "CONNECTING",
                                          settled |-> FALSE, timeout |-> TRUE,
                                          outcome |-> "pending",
                                          generation |-> st.sessionGeneration,
                                          waiters |-> <<waiter>>,
                                          attempt |-> waiter.kind,
                                          failed |-> FALSE])]

scheduleReconnect(st) ==
    IF st.sessionTopic = NoTopic \/ st.isReconnecting
    THEN st
    ELSE [st EXCEPT !.isReconnecting = TRUE, !.reconnectAttempt = 0,
                    !.reconnectTimer = [generation |-> st.sessionGeneration,
                                        delay |-> initialDelay]]

\* tryConnect, the callback of the reconnect timer.
tryConnect(st, generation) ==
    IF generation # st.sessionGeneration \/ st.sessionTopic = NoTopic
    THEN [st EXCEPT !.isReconnecting = FALSE]
    ELSE connectWebSocket(
             setStatus([st EXCEPT !.reconnectAttempt = @ + 1], CONNECTING),
             st.sessionTopic, ReconnectWaiter(generation))

updateMatches(st) ==
    callback(st, MatchesUpdated(SelectSeq(likes, LAMBDA name : name \in st.spouseLikes)))

peerHandleMessage(st, data) ==
    IF data.senderId = getInstanceId
    THEN st
    ELSE LET joined == IF st.hasSpouseJoined
                       THEN st
                       ELSE callback(setStatus([st EXCEPT !.hasSpouseJoined = TRUE], CONNECTED),
                                     ConnectionChange(TRUE))
         IN  CASE data.type = "likes" ->
                    sendLikes(updateMatches([joined EXCEPT !.spouseLikes = ToSet(data.likes)]))
               [] data.type = "like" ->
                    updateMatches(
                        IF data.name \notin st.spouseLikes /\ data.name \in ToSet(likes)
                        THEN callback([joined EXCEPT !.spouseLikes = @ \cup {data.name}],
                                      MatchFound(data.name))
                        ELSE [joined EXCEPT !.spouseLikes = @ \cup {data.name}])
               [] data.type = "unlike" ->
                    updateMatches([joined EXCEPT !.spouseLikes = @ \ {data.name}])
               [] OTHER -> joined

PeerInitPeerSession ==
    /\ ~callbacksSet
    /\ callbacksSet' = TRUE
    /\ lastOp' = [op |-> "initPeerSession"]
    /\ events' = <<>>
    /\ published' = <<>>
    /\ UNCHANGED <<storageVars, syncVars, currentTopic, socket, sessionGeneration, status, ws,
                   historyVars, peerVars, pairVars>>

\* joinSession up to its await, and past it when the promise is settled already.
PeerJoinSession(topic) ==
    IF TrimRight(TrimLeft(topic)) = <<>>
    THEN PeerStep(PeerState, [op |-> "joinSession", threw |-> TRUE])
    ELSE PeerStep(
             connectWebSocket(
                 [PeerState EXCEPT !.sessionGeneration = @ + 1,
                                   !.reconnectTimer = NoTimer,
                                   !.reconnectAttempt = 0,
                                   !.isReconnecting = FALSE,
                                   !.hasSpouseJoined = FALSE,
                                   !.currentTopic = normalizeRoomCode(topic),
                                   !.sessionTopic = setSessionTopic(normalizeRoomCode(topic))],
                 normalizeRoomCode(topic), JoinWaiter),
             [op |-> "joinSession", threw |-> FALSE])

\* disconnect(false).
PeerDisconnect ==
    PeerStep(
        callback(callback(setStatus(
            [(IF socket # NoSocket THEN closed(PeerState, socket) ELSE PeerState)
                EXCEPT !.sessionGeneration = @ + 1,
                       !.reconnectTimer = NoTimer,
                       !.reconnectAttempt = 0,
                       !.isReconnecting = FALSE,
                       !.hasSpouseJoined = FALSE,
                       !.connectPromise = NoSocket,
                       !.sessionTopic = clearSessionTopic,
                       !.socket = NoSocket,
                       !.currentTopic = NoTopic,
                       !.spouseLikes = {}],
            DISCONNECTED), ConnectionChange(FALSE)), MatchesUpdated(<<>>)),
        [op |-> "disconnect"])

\* The reconnect timer fires.
PeerTryConnect ==
    /\ reconnectTimer # NoTimer
    /\ PeerStep(tryConnect(clearReconnectTimer(PeerState), reconnectTimer.generation),
                [op |-> "tryConnect"])

\* The connect timeout of socket id fires.
connectTimeout(st, id) ==
    IF st.ws[id].settled
    THEN [st EXCEPT !.ws[id].timeout = FALSE]
    ELSE settlePromise(closed(st, id), id, "rejected")

PeerConnectTimeout(id) ==
    /\ id \in DOMAIN ws
    /\ ws[id].timeout
    /\ PeerStep(connectTimeout(PeerState, id), [op |-> "connectTimeout", socket |-> id])

\* The same, with the jitter its catch of tryConnect draws.
PeerConnectTimeoutDrawing(id, random) ==
    /\ id \in DOMAIN ws
    /\ ws[id].timeout
    /\ PeerStep(connectTimeout([PeerState EXCEPT !.random = random], id),
                [op |-> "connectTimeout", socket |-> id])

PeerWsOpen(id) ==
    /\ id \in DOMAIN ws
    /\ ws[id].readyState = "CONNECTING"
    /\ PeerStep(LET open == [PeerState EXCEPT !.ws[id].readyState = "OPEN"]
                IN  IF ws[id].settled
                    THEN open
                    ELSE IF ws[id].generation # sessionGeneration
                    THEN settlePromise(closed(open, id), id, "rejected")
                    ELSE settlePromise(
                             setStatus(open, IF hasSpouseJoined THEN CONNECTED ELSE IN_ROOM),
                             id, "resolved"),
                [op |-> "onopen", socket |-> id])

PeerWsMessage(id, data) ==
    /\ id \in DOMAIN ws
    /\ ws[id].readyState \in {"OPEN", "CLOSING"}
    /\ PeerStep(IF \/ ws[id].generation # sessionGeneration
                   \/ data.event # "message"
                   \/ data.topic # ws[id].topic
                   \/ data.message = <<>>
                THEN PeerState
                ELSE peerHandleMessage(PeerState, data.message[1]),
                [op |-> "onmessage", socket |-> id])

\* The connection of socket id fails: the error event.  The socket is left
\* CLOSING for its close event, which follows.
onerror(st, id) ==
    LET failed == [st EXCEPT !.ws[id].failed = TRUE, !.ws[id].readyState = "CLOSING"]
    IN  IF st.ws[id].settled \/ st.ws[id].generation # st.sessionGeneration
        THEN failed
        ELSE settlePromise(failed, id, "rejected")

PeerWsError(id) ==
    /\ id \in DOMAIN ws
    /\ ws[id].readyState # "CLOSED"
    /\ ~ws[id].failed
    /\ PeerStep(onerror(PeerState, id), [op |-> "onerror", socket |-> id])

\* The same, with the jitter its catch of tryConnect draws.
PeerWsErrorDrawing(id, random) ==
    /\ id \in DOMAIN ws
    /\ ws[id].readyState # "CLOSED"
    /\ ~ws[id].failed
    /\ PeerStep(onerror([PeerState EXCEPT !.random = random], id),
                [op |-> "onerror", socket |-> id])

\* The close event of socket id: after close(), after an error, or because
\* the server or the network ended an open connection.
PeerWsClose(id) ==
    /\ id \in DOMAIN ws
    /\ ws[id].readyState \in {"OPEN", "CLOSING"}
    /\ PeerStep(LET gone == [PeerState EXCEPT !.ws[id].readyState = "CLOSED",
                                              !.ws[id].timeout = FALSE]
                    dropped == [gone EXCEPT !.socket = IF @ = id THEN NoSocket ELSE @,
                                            !.connectPromise = NoSocket,
                                            !.hasSpouseJoined = FALSE]
                IN  IF ws[id].generation # sessionGeneration
                    THEN gone
                    ELSE IF currentTopic # NoTopic
                    THEN scheduleReconnect(
                             setStatus(IF hasSpouseJoined
                                       THEN callback(dropped, ConnectionChange(FALSE))
                                       ELSE dropped,
                                       CONNECTING))
                    ELSE setStatus([gone EXCEPT !.socket = IF @ = id THEN NoSocket ELSE @,
                                                !.connectPromise = NoSocket],
                                   DISCONNECTED),
                [op |-> "onclose", socket |-> id])

(***************************************************************************)
(* The specifications.  All run the same program; they differ in what the  *)
(* environment does to it.                                                 *)
(*   Spec        the session module over an unreliable transport: joins,   *)
(*               disconnects and every socket callback of every            *)
(*               generation; nobody likes a name meanwhile.                *)
(*   RoomSpec    room changes over a transport that stays up: likes are    *)
(*               notified and flushed while rooms are joined and left.     *)
(*   SyncSpec    the sync engine in the first room joined: the like list   *)
(*               is edited, likes are notified, the partner sends          *)
(*               snapshots and first batches.                              *)
(*   InboundSpec the sync engine in the first room joined, fed every       *)
(*               envelope of Messages(Names).                              *)
(*   AppSpec     the app's swipe handler over the engine: right swipes,    *)
(*               removals and the partner's snapshots and batches.         *)
(*   MatchSpec   as AppSpec without removals, with likes re-notified.      *)
(*   AutoCreateSpec  the session module whose disconnect creates a new     *)
(*               room (src/unnamed/part_009).                              *)
(*   PeerSpec    the reconnecting session module (src/peerSession.js)      *)
(*               over a transport whose sockets time out, fail and close.  *)
(*   PairSpec    the client and its partner in one room, with the relay    *)
(*               between them.                                             *)
(*   BackoffSpec the reconnect cycle of the reconnecting module with       *)
(*               every jitter draw of the backoff delay.                   *)
(*   LossSpec    the pair in one room while likes are made; the post of a  *)
(*               batch may fail.                                           *)
(*   ResendSpec  two clients of the reconnecting module, which resends its *)
(*               whole like list, in one room; the relay is fair.          *)
(***************************************************************************)
Generations == 1..MaxGeneration

SessionMessages ==
    { [type |-> "join", senderId |-> PartnerId, payload |-> [likeVersion |-> 0]],
      [type |-> "state_snapshot", senderId |-> PartnerId,
       payload |-> [likes |-> <<"Emma">>, likeVersion |-> 1]] }

SessionFrames ==
    { Frame(buildTopic(RoomA), m) : m \in SessionMessages }

Next ==
    \/ InitPeerSession
    \/ sessionGeneration < MaxGeneration /\ \E roomCode \in RoomInputs : JoinSession(roomCode)
    \/ sessionGeneration < MaxGeneration /\ CreateNewSession
    \/ sessionGeneration < MaxGeneration /\ InitializeAndReconnect
    \/ sessionGeneration < MaxGeneration /\ Disconnect
    \/ \E g \in Generations : WsOpen(g)
    \/ \E g \in Generations, ok \in BOOLEAN : HandshakeJoinPosted(g, ok)
    \/ \E g \in Generations, ok \in BOOLEAN : HandshakeSnapshotPosted(g, ok)
    \/ \E g \in Generations : ConnectTimeout(g)
    \/ \E g \in Generations, frame \in SessionFrames : WsMessage(g, frame)
    \/ \E g \in Generations : WsError(g)
    \/ \E g \in Generations : WsClose(g)

Spec == Init /\ [][Next]_vars

RoomNext ==
    \/ InitPeerSession
    \/ \E name \in OneName : NotifyLike(name)
    \/ myLikeVersion < MaxVersion /\ FlushPendingLikes
    \/ sessionGeneration < MaxGeneration /\ \E roomCode \in RoomInputs : JoinSession(roomCode)
    \/ sessionGeneration < MaxGeneration /\ CreateNewSession
    \/ sessionGeneration < MaxGeneration /\ InitializeAndReconnect
    \/ sessionGeneration < MaxGeneration /\ Disconnect
    \/ \E g \in Generations : WsOpen(g)
    \/ \E g \in Generations, ok \in BOOLEAN : HandshakeJoinPosted(g, ok)
    \/ \E g \in Generations, ok \in BOOLEAN : HandshakeSnapshotPosted(g, ok)
    \/ \E g \in Generations, frame \in SessionFrames : WsMessage(g, frame)

RoomSpec == Init /\ [][RoomNext]_vars

\* What the partner sends in SyncSpec: snapshots of version 0 and first batches.
SyncMessages ==
    [type : {"state_snapshot"}, senderId : {PartnerId},
     payload : [likes : PayloadLikes(Names), likeVersion : {0}]]
    \cup [type : {"likes_batch"}, senderId : {PartnerId},
          payload : [likes : PayloadLikes(Names), likeVersion : {1}]]

SyncFrames == { Frame(buildTopic(RoomA), m) : m \in SyncMessages }

SyncNext ==
    \/ InitPeerSession
    \/ \E name \in Names : AddLike(name)
    \/ \E name \in Names : RemoveLike(name)
    \/ \E name \in Names \cup {""} : NotifyLike(name)
    \/ myLikeVersion < MaxSyncBatches /\ FlushPendingLikes
    \/ sessionGeneration = 0 /\ JoinSession(RoomA)
    \/ WsOpen(1)
    \/ HandshakeJoinPosted(1, TRUE)
    \/ HandshakeSnapshotPosted(1, TRUE)
    \/ \E frame \in SyncFrames : WsMessage(1, frame)

SyncSpec == SyncInit /\ [][SyncNext]_vars

\* AppSpec: the application in the first room joined; names are liked by
\* swiping and unliked from the likes list.
AppNext ==
    \/ InitPeerSession
    \/ \E name \in Names : HandleSwipeRight(name)
    \/ \E name \in Names : RemoveLike(name)
    \/ myLikeVersion < MaxSyncBatches /\ FlushPendingLikes
    \/ sessionGeneration = 0 /\ JoinSession(RoomA)
    \/ WsOpen(1)
    \/ HandshakeJoinPosted(1, TRUE)
    \/ HandshakeSnapshotPosted(1, TRUE)
    \/ \E frame \in SyncFrames : WsMessage(1, frame)

AppSpec == SyncInit /\ [][AppNext]_vars

\* MatchSpec: AppSpec without unliking, with notifyLike repeated for names
\* already liked.
MatchNext ==
    \/ InitPeerSession
    \/ \E name \in Names : HandleSwipeRight(name)
    \/ \E name \in Names : name \in ToSet(likes) /\ NotifyLike(name)
    \/ myLikeVersion < MaxSyncBatches /\ FlushPendingLikes
    \/ sessionGeneration = 0 /\ JoinSession(RoomA)
    \/ WsOpen(1)
    \/ HandshakeJoinPosted(1, TRUE)
    \/ HandshakeSnapshotPosted(1, TRUE)
    \/ \E frame \in SyncFrames : WsMessage(1, frame)

MatchSpec == SyncInit /\ [][MatchNext]_vars

\* AutoCreateSpec: the session module whose disconnect creates a new room,
\* over a transport that stays up.
AutoCreateGenerations == 1..(MaxGeneration + 1)

AutoCreateNext ==
    \/ InitPeerSession
    \/ \E name \in OneName : NotifyLike(name)
    \/ myLikeVersion < MaxSyncBatches /\ FlushPendingLikes
    \/ sessionGeneration = 0 /\ \E roomCode \in RoomInputs : JoinSession(roomCode)
    \/ sessionGeneration < MaxGeneration /\ DisconnectAndCreate
    \/ \E g \in AutoCreateGenerations : WsOpen(g)
    \/ \E g \in AutoCreateGenerations, ok \in BOOLEAN : HandshakeJoinPosted(g, ok)
    \/ \E g \in AutoCreateGenerations, ok \in BOOLEAN : HandshakeSnapshotPosted(g, ok)
    \/ \E g \in AutoCreateGenerations, frame \in SessionFrames : WsMessage(g, frame)

AutoCreateSpec == Init /\ [][AutoCreateNext]_vars

\* PeerSpec: the reconnecting session module over an unreliable transport.
MaxSockets == 6

PeerFrames == { Frame(RoomA, [type |-> "likes", likes |-> <<"Emma">>, senderId |-> PartnerId]) }

PeerNext ==
    \/ PeerInitPeerSession
    \/ sessionGeneration = 0 /\ UNCHANGED pairVars
          /\ \E topic \in {RoomA, <<" ">>} : PeerJoinSession(topic)
    \/ sessionGeneration < MaxGeneration /\ PeerDisconnect /\ UNCHANGED pairVars
    \/ Len(ws) < MaxSockets /\ PeerTryConnect /\ UNCHANGED pairVars
    \/ UNCHANGED pairVars /\ \E id \in 1..MaxSockets : PeerConnectTimeout(id)
    \/ UNCHANGED pairVars /\ \E id \in 1..MaxSockets : PeerWsOpen(id)
    \/ UNCHANGED pairVars /\ \E data \in PeerFrames : PeerWsMessage(socket, data)
    \/ UNCHANGED pairVars /\ \E id \in 1..MaxSockets : PeerWsError(id)
    \/ UNCHANGED pairVars /\ \E id \in 1..MaxSockets : PeerWsClose(id)

PeerInit == Loaded({<<"Emma">>}, {}, {NoTopic, RoomA})

PeerSpec == PeerInit /\ [][PeerNext]_vars

\* BackoffSpec: one room of the reconnecting module whose channel closes and
\* whose reconnect attempts time out or fail, with every jitter draw.
MaxBackoffSockets == 6

BackoffNext ==
    \/ PeerInitPeerSession
    \/ sessionGeneration = 0 /\ PeerJoinSession(RoomA) /\ UNCHANGED pairVars
    \/ Len(ws) < MaxBackoffSockets /\ PeerTryConnect /\ UNCHANGED pairVars
    \/ PeerWsOpen(1) /\ UNCHANGED pairVars
    \/ PeerWsClose(1) /\ UNCHANGED pairVars
    \/ UNCHANGED pairVars
          /\ \E id \in 2..MaxBackoffSockets, random \in JitterDraws :
                 PeerConnectTimeoutDrawing(id, random)
    \/ UNCHANGED pairVars
          /\ \E id \in 2..MaxBackoffSockets, random \in JitterDraws :
                 PeerWsErrorDrawing(id, random)

BackoffSpec == PeerInit /\ [][BackoffNext]_vars

(***************************************************************************)
(* PairSpec: the client and its partner in one room. The relay hands an    *)
(* envelope to every client whose channel is open when it is posted; it    *)
(* delivers in any order and may deliver an envelope more than once. The   *)
(* partner runs the same code; its join handshake is taken as one step.    *)
(***************************************************************************)
PartnerLikes == <<"Olivia">>

\* The relay's message event carries the posted JSON body.
relayed(envelope, sender) ==
    [type |-> envelope.type, senderId |-> sender, payload |-> envelope.payload]

channelOpen == socket # NoSocket /\ ws[socket].readyState = "OPEN"

\* The envelopes of the last step reach the partner if its channel is open.
postToPartner ==
    toPartner' = IF partner.joined
                 THEN toPartner \cup { relayed(published'[i], InstanceId) : i \in DOMAIN published' }
                 ELSE toPartner

\* The envelopes the partner posts reach the local socket if it is open.
postToLocal(envelopes) ==
    toLocal' = IF channelOpen
               THEN toLocal \cup { relayed(envelopes[i], PartnerId) : i \in DOMAIN envelopes }
               ELSE toLocal

partnerSnapshot ==
    [type |-> "state_snapshot", payload |-> snapshotBody(PartnerLikes, 0)]

PairWsOpen == onopen(1) /\ postToPartner /\ UNCHANGED <<peerVars, toLocal, partner>>

PairJoinPosted == joinPosted(1, TRUE) /\ postToPartner /\ UNCHANGED <<peerVars, toLocal, partner>>

\* The relay delivers an envelope of the partner to the local socket.
Deliver(m) ==
    /\ m \in toLocal
    /\ onmessage(1, Frame(buildTopic(RoomA), m))
    /\ postToPartner
    /\ toLocal' \in {toLocal \ {m}, toLocal}
    /\ UNCHANGED <<peerVars, partner>>

\* The partner joins the room: its channel opens and sendJoinHandshake posts
\* join and the snapshot.
PartnerJoins ==
    /\ ~partner.joined
    /\ partner' = [partner EXCEPT !.joined = TRUE, !.status = IN_ROOM]
    /\ postToLocal(<<[type |-> "join", payload |-> [likeVersion |-> 0]], partnerSnapshot>>)
    /\ lastOp' = [op |-> "partnerJoins"]
    /\ published' = <<>>
    /\ events' = <<>>
    /\ UNCHANGED <<storageVars, syncVars, sessionVars, historyVars, peerVars, toPartner>>

\* The partner's handleMessage on an envelope of the local client.
PartnerReceives(m) ==
    /\ m \in toPartner
    /\ CASE m.type \in {"join", "resync_request"} ->
                /\ postToLocal(<<partnerSnapshot>>)
                /\ UNCHANGED partner
         [] m.type = "state_snapshot" ->
                /\ partner' = [partner EXCEPT !.likes = ToSet(m.payload.likes),
                                              !.likeVersion = m.payload.likeVersion,
                                              !.status = CONNECTED,
                                              !.heardVersion = Max(@, m.payload.likeVersion)]
                /\ UNCHANGED toLocal
         [] m.type = "likes_batch" ->
                IF acceptsBatch(m.payload, partner.likeVersion)
                THEN /\ partner' = [partner EXCEPT
                                       !.likes = addAll(@, m.payload.likes),
                                       !.likeVersion = m.payload.likeVersion,
                                       !.status = CONNECTED,
                                       !.heardVersion = Max(@, m.payload.likeVersion)]
                     /\ UNCHANGED toLocal
                ELSE /\ partner' = [partner EXCEPT
                                       !.heardVersion = Max(@, m.payload.likeVersion)]
                     /\ postToLocal(<<[type |-> "resync_request",
                                       payload |-> [knownVersion |-> partner.likeVersion]]>>)
         [] OTHER -> UNCHANGED <<partner, toLocal>>
    /\ lastOp' = [op |-> "partnerReceives"]
    /\ published' = <<>>
    /\ events' = <<>>
    /\ toPartner' \in {toPartner \ {m}, toPartner}
    /\ UNCHANGED <<storageVars, syncVars, sessionVars, historyVars, peerVars>>

PairNext ==
    \/ InitPeerSession
    \/ sessionGeneration = 0 /\ JoinSession(RoomA)
    \/ PairWsOpen
    \/ PairJoinPosted
    \/ HandshakeSnapshotPosted(1, TRUE)
    \/ PartnerJoins
    \/ \E m \in toLocal : Deliver(m)
    \/ \E m \in toPartner : PartnerReceives(m)

PairSpec == Loaded(UniqueSeqs(Names), {}, {NoTopic}) /\ [][PairNext]_vars

\* LossSpec: the pair in one room, the local user swiping right while the
\* partner is connected; the fetch of a batch may fail.  The relay delivers
\* what is in flight before the next batch is posted.
MaxLossBatches == 2

PairFlush(ok) ==
    /\ toPartner = {}
    /\ toLocal = {}
    /\ flushPendingLikes(ok)
    /\ postToPartner
    /\ UNCHANGED <<peerVars, toLocal, partner>>

LossNext ==
    \/ InitPeerSession
    \/ sessionGeneration = 0 /\ JoinSession(RoomA)
    \/ PairWsOpen
    \/ PairJoinPosted
    \/ HandshakeSnapshotPosted(1, TRUE)
    \/ PartnerJoins
    \/ \E name \in Names : isConnected /\ HandleSwipeRight(name)
    \/ \E ok \in BOOLEAN : myLikeVersion < MaxLossBatches /\ PairFlush(ok)
    \/ \E m \in toLocal : Deliver(m)
    \/ \E m \in toPartner : PartnerReceives(m)

LossSpec == Loaded({<<>>}, {}, {NoTopic}) /\ [][LossNext]_vars

(***************************************************************************)
(* ResendSpec: two clients of the full-resend module (src/peerSession.js)  *)
(* in one room.  Nobody likes or unlikes a name: the like lists are the    *)
(* ones loaded.  The relay hands a message to the other client if that     *)
(* client's channel is open when it is posted, and delivers it once.  The  *)
(* partner runs the same handleMessage; its join is taken as one step.     *)
(* The local client may leave the room.                                    *)
(***************************************************************************)
\* The messages the last step published reach the partner if it has joined.
resendToPartner ==
    toPartner' = IF partner.joined
                 THEN toPartner \cup { [type |-> published'[i].type,
                                        likes |-> published'[i].likes,
                                        senderId |-> published'[i].senderId] :
                                          i \in DOMAIN published' }
                 ELSE toPartner

\* sendLikes of the partner: its message reaches the local socket if it is open.
partnerSendLikes ==
    toLocal' = IF channelOpen
               THEN toLocal \cup {[type |-> "likes", likes |-> PartnerLikes,
                                   senderId |-> PartnerId]}
               ELSE toLocal

\* The partner's joinSession: its socket opens and it calls sendLikes.
ResendPartnerJoins ==
    /\ callbacksSet
    /\ ~partner.joined
    /\ partner' = [partner EXCEPT !.joined = TRUE, !.status = IN_ROOM]
    /\ partnerSendLikes
    /\ lastOp' = [op |-> "partnerJoins"]
    /\ published' = <<>>
    /\ events' = <<>>
    /\ UNCHANGED <<storageVars, syncVars, sessionVars, historyVars, peerVars, toPartner>>

\* The partner's handleMessage on a message of the local client.
ResendPartnerReceives(m) ==
    /\ m \in toPartner
    /\ toPartner' = toPartner \ {m}
    /\ IF m.senderId = PartnerId
       THEN UNCHANGED <<partner, toLocal>>
       ELSE IF m.type = "likes"
       THEN /\ partner' = [partner EXCEPT !.status = CONNECTED, !.likes = ToSet(m.likes)]
            /\ partnerSendLikes
       ELSE /\ partner' = [partner EXCEPT !.status = CONNECTED]
            /\ UNCHANGED toLocal
    /\ lastOp' = [op |-> "partnerReceives"]
    /\ published' = <<>>
    /\ events' = <<>>
    /\ UNCHANGED <<storageVars, syncVars, sessionVars, historyVars, peerVars>>

ResendNext ==
    \/ PeerInitPeerSession
    \/ sessionGeneration = 0 /\ PeerJoinSession(RoomA) /\ resendToPartner
          /\ UNCHANGED <<toLocal, partner>>
    \/ PeerWsOpen(1) /\ resendToPartner /\ UNCHANGED <<toLocal, partner>>
    \/ sessionGeneration < MaxGeneration /\ PeerDisconnect /\ UNCHANGED pairVars
    \/ ResendPartnerJoins
    \/ \E m \in toLocal :
           /\ PeerWsMessage(1, Frame(RoomA, m))
           /\ resendToPartner
           /\ toLocal' = toLocal \ {m}
           /\ UNCHANGED partner
    \/ \E m \in toPartner : ResendPartnerReceives(m)

\* The relay delivers every message in flight, and a client handles what is
\* delivered to it.
ResendSpec ==
    /\ Loaded(UniqueSeqs(Names), {}, {NoTopic, RoomA})
    /\ [][ResendNext]_vars
    /\ WF_vars(\E m \in toLocal :
                   /\ PeerWsMessage(1, Frame(RoomA, m))
                   /\ resendToPartner
                   /\ toLocal' = toLocal \ {m}
                   /\ UNCHANGED partner)
    /\ WF_vars(\E m \in toPartner : ResendPartnerReceives(m))

InboundFrames ==
    { Frame(buildTopic(RoomA), m) : m \in Messages(Names) }
    \cup OtherFrames(buildTopic(RoomA),
                     [type |-> "state_snapshot", senderId |-> PartnerId,
                      payload |-> [likes |-> <<"Emma">>, likeVersion |-> 1]])

InboundNext ==
    \/ InitPeerSession
    \/ \E name \in OneName : NotifyLike(name)
    \/ myLikeVersion < MaxSyncBatches /\ FlushPendingLikes
    \/ sessionGeneration = 0 /\ JoinSession(RoomA)
    \/ WsOpen(1)
    \/ HandshakeJoinPosted(1, TRUE)
    \/ HandshakeSnapshotPosted(1, TRUE)
    \/ \E frame \in InboundFrames : WsMessage(1, frame)

InboundSpec ==
    Loaded({<<>>, <<"Emma">>, <<"Emma", "Olivia">>}, Names, {NoTopic}) /\ [][InboundNext]_vars

(***************************************************************************)
(* Properties of the engine and the session module.                       *)
(***************************************************************************)
Envelope(type, payload) ==
    [type |-> type, roomId |-> currentTopic, senderId |-> InstanceId, payload |-> payload]

\* The frames of the room's topic that carry a likes_batch of the partner.
PartnerBatchFrames ==
    { f \in InboundFrames :
        /\ f.event = "message"
        /\ f.topic = buildTopic(RoomA)
        /\ f.message # <<>>
        /\ f.message[1].type = "likes_batch"
        /\ f.message[1].senderId = PartnerId }

\* The frames of the room's topic that carry a state_snapshot of the partner
\* with a like list and a version.
PartnerSnapshotFrames ==
    { f \in InboundFrames :
        /\ f.event = "message"
        /\ f.topic = buildTopic(RoomA)
        /\ f.message # <<>>
        /\ f.message[1].type = "state_snapshot"
        /\ f.message[1].senderId = PartnerId
        /\ "likes" \in DOMAIN f.message[1].payload
        /\ "likeVersion" \in DOMAIN f.message[1].payload }

\* The last step handed an envelope of this type from this sender to the engine
\* (the primed form says it of the step being taken).
Handled(op, type, sender) ==
    /\ op.op = "onmessage"
    /\ op.event = "message"
    /\ op.topic = buildTopic(RoomA)
    /\ op.type = type
    /\ op.senderId = sender

\* C1: in every reachable state getMatches() holds exactly the names that are
\* both in the local like list and in the cached partner like set, each once.
C1_MatchesAreIntersection ==
    /\ ToSet(getMatches(likes, partnerState.likes)) = ToSet(likes) \cap partnerState.likes
    /\ IsUnique(getMatches(likes, partnerState.likes))

C1_Witness ==
    /\ status = CONNECTED
    /\ Len(likes) = 2
    /\ Len(getMatches(likes, partnerState.likes)) = 1

\* C2: a likes_batch of the partner whose likeVersion is not the cached version
\* plus one (or is missing) leaves the cached partner state unchanged and posts
\* exactly one resync_request carrying that unchanged version.
C2_OutOfSequenceBatchRejected ==
    [][ Handled(lastOp', "likes_batch", PartnerId) =>
          \A f \in PartnerBatchFrames :
              ( /\ ~( /\ "likeVersion" \in DOMAIN f.message[1].payload
                      /\ f.message[1].payload.likeVersion = partnerState.likeVersion + 1 )
                /\ WsMessage(1, f) )
              => /\ partnerState' = partnerState
                 /\ storedPartnerLikes' = storedPartnerLikes
                 /\ published' = <<Envelope("resync_request",
                                            [knownVersion |-> partnerState.likeVersion])>>
      ]_vars

C2_Witness ==
    /\ Handled(lastOp, "likes_batch", PartnerId)
    /\ partnerState.likeVersion = 1
    /\ partnerState.likes = {"Emma"}
    /\ published = <<Envelope("resync_request", [knownVersion |-> 1])>>

\* C3: a likes_batch of the partner whose likeVersion is the cached version plus
\* one is applied: the cached set gains the batch's names and loses none, the
\* cached version becomes the batch's, the set is persisted, nothing is posted.
C3_ContiguousBatchApplied ==
    [][ Handled(lastOp', "likes_batch", PartnerId) =>
          \A f \in PartnerBatchFrames :
              ( /\ "likeVersion" \in DOMAIN f.message[1].payload
                /\ f.message[1].payload.likeVersion = partnerState.likeVersion + 1
                /\ WsMessage(1, f) )
              => /\ partnerState'.likes =
                        partnerState.likes
                        \cup (IF "likes" \in DOMAIN f.message[1].payload
                              THEN ToSet(f.message[1].payload.likes) ELSE {})
                 /\ partnerState'.likeVersion = f.message[1].payload.likeVersion
                 /\ storedPartnerLikes' = partnerState'.likes
                 /\ published' = <<>>
      ]_vars

C3_Witness ==
    /\ Handled(lastOp, "likes_batch", PartnerId)
    /\ published = <<>>
    /\ partnerState = [likes |-> {"Emma", "Olivia"}, likeVersion |-> 2]
    /\ storedPartnerLikes = {"Emma", "Olivia"}

\* C4: an envelope whose senderId is the client's own instance id is never
\* applied, whatever its type or version: the cached partner likes and version,
\* their persisted copy, the matches and the status stay as they were, no
\* callback fires and nothing is posted in response.
C4_OwnEnvelopeIgnored ==
    [][ (lastOp'.op = "onmessage" /\ lastOp'.senderId = InstanceId) =>
          /\ partnerState' = partnerState
          /\ storedPartnerLikes' = storedPartnerLikes
          /\ knownMatches' = knownMatches
          /\ getMatches(likes', partnerState'.likes) = getMatches(likes, partnerState.likes)
          /\ status' = status
          /\ events' = <<>>
          /\ published' = <<>>
      ]_vars

C4_Witness ==
    /\ Handled(lastOp, "state_snapshot", InstanceId)
    /\ status = IN_ROOM
    /\ partnerState = EmptyPartnerState
    /\ published = <<>>

\* C5: the notifyLike calls made in a room within one debounce window yield
\* exactly one likes_batch when the timer fires; the batch holds every distinct
\* name passed, each once, and the pending buffer is empty afterwards.
C5_DebounceCoalesces ==
    [][ (lastOp'.op = "flushPendingLikes" /\ notifiedNames # {}) =>
          /\ Len(published') = 1
          /\ published'[1].type = "likes_batch"
          /\ ToSet(published'[1].payload.likes) = notifiedNames
          /\ IsUnique(published'[1].payload.likes)
          /\ pendingLikeBuffer' = <<>>
      ]_vars

C5_Witness ==
    /\ lastOp.op = "flushPendingLikes"
    /\ pendingLikeBuffer = <<>>
    /\ Len(published) = 1
    /\ published[1].type = "likes_batch"
    /\ Len(published[1].payload.likes) = 2
    /\ published[1].payload.likeVersion = 1

C7_NoEffectAfterDisconnect ==
    [][ ( /\ currentTopic = NoTopic
          /\ sessionGeneration > 0
          /\ lastOp'.op \in {"onopen", "joinPosted", "snapshotPosted", "connectTimeout",
                             "onerror", "onclose", "onmessage"} )
          => /\ status' = DISCONNECTED
             /\ \A i \in 1..Len(events') : events'[i].cb = "settled"
             /\ UNCHANGED syncVars
      ]_vars

\* C8: a join or a resync_request of the partner is answered with exactly one
\* state_snapshot that carries the whole local like list and the local like
\* version; no local state changes.
C8_SnapshotOnRequest ==
    [][ ( \/ Handled(lastOp', "join", PartnerId)
          \/ Handled(lastOp', "resync_request", PartnerId) ) =>
          /\ published' = <<Envelope("state_snapshot",
                                     [likes |-> likes, likeVersion |-> myLikeVersion])>>
          /\ events' = <<>>
          /\ UNCHANGED <<likes, storedPartnerLikes, syncVars, status>>
      ]_vars

C8_Witness ==
    /\ Handled(lastOp, "resync_request", PartnerId)
    /\ Len(likes) = 2
    /\ myLikeVersion = 1
    /\ published = <<Envelope("state_snapshot", [likes |-> likes, likeVersion |-> 1])>>

\* C9: a state_snapshot of the partner (payload with a like list and a version)
\* replaces the cached partner state wholesale: the cached set is exactly the
\* payload's list, the cached version the payload's version; the set is
\* persisted, the matches are recomputed and announced, the client is connected.
C9_SnapshotReplaces ==
    [][ Handled(lastOp', "state_snapshot", PartnerId) =>
          \A f \in PartnerSnapshotFrames :
              WsMessage(1, f)
              => /\ partnerState' = [likes |-> ToSet(f.message[1].payload.likes),
                                     likeVersion |-> f.message[1].payload.likeVersion]
                 /\ storedPartnerLikes' = ToSet(f.message[1].payload.likes)
                 /\ knownMatches' = ToSet(likes) \cap ToSet(f.message[1].payload.likes)
                 /\ \E i \in 1..Len(events') :
                       /\ events'[i].cb = "onMatchesUpdated"
                       /\ ToSet(events'[i].matches)
                             = ToSet(likes) \cap ToSet(f.message[1].payload.likes)
                 /\ \E i \in 1..Len(events') : events'[i] = ConnectionChange(TRUE)
                 /\ status' = CONNECTED
      ]_vars

C9_Witness ==
    /\ Handled(lastOp, "state_snapshot", PartnerId)
    /\ status = CONNECTED
    /\ partnerState = [likes |-> {"Olivia"}, likeVersion |-> 0]
    /\ storedPartnerLikes = {"Olivia"}
    /\ likes = <<"Emma", "Olivia">>
    /\ knownMatches = {"Olivia"}

\* C10: no match is reported that the two visible sets do not both hold: the
\* name of an onMatchFound is in the local like list and in the cached partner
\* set, and every list given to onMatchesUpdated is within both.
C10_ReportedMatchesAreShared ==
    \A i \in 1..Len(events) :
        /\ events[i].cb = "onMatchFound"
             => events[i].name \in ToSet(likes) \cap partnerState.likes
        /\ events[i].cb = "onMatchesUpdated"
             => ToSet(events[i].matches) \subseteq ToSet(likes) \cap partnerState.likes

C10_Witness ==
    /\ lastOp.op = "notifyLike"
    /\ Len(events) = 2
    /\ events[1] = MatchFound("Olivia")
    /\ events[2] = MatchesUpdated(<<"Emma", "Olivia">>)

\* C11: the matches are recomputed after every change to either side: once the
\* application runs, the match list last given to onMatchesUpdated, which the
\* known-matches cache holds, is the intersection of the local like list and the
\* cached partner likes.
C11_MatchesFollowMutations ==
    callbacksSet => knownMatches = ToSet(likes) \cap partnerState.likes

\* The own like of a name coincides with the cached remote like.
BothLike(name) ==
    /\ currentTopic # NoTopic
    /\ name \in ToSet(likes) \cap partnerState.likes

Fired(event) == \E i \in 1..Len(events) : events[i] = event

\* C12: when both parties like a name, each side's onMatchFound fires for it
\* exactly once, at the moment its own like coincides with the cached remote
\* like: a step fires onMatchFound for a name exactly when the step makes the
\* two likes coincide.
C12_MatchFoundWhenLikesCoincide ==
    [][\A name \in Names :
          (~BothLike(name) /\ BothLike(name)') <=> Fired(MatchFound(name))']_vars

\* C13: inbound messages never celebrate. A message from the partner that
\* completes a match with a name of the local like list gives onMatchesUpdated
\* a list holding the name and does not call onMatchFound; onMatchFound is
\* called from notifyLike only.
C13_InboundNeverCelebrates ==
    [][/\ \A name \in Names :
            /\ Fired(MatchFound(name))' => lastOp'.op = "notifyLike"
            /\ ( /\ lastOp'.op = "onmessage"
                 /\ name \in ToSet(likes)
                 /\ name \notin partnerState.likes
                 /\ name \in partnerState'.likes )
               => \E i \in 1..Len(events') :
                      /\ events'[i].cb = "onMatchesUpdated"
                      /\ name \in ToSet(events'[i].matches)]_vars

C13_Witness ==
    /\ lastOp.op = "onmessage"
    /\ lastOp.type = "likes_batch"
    /\ likes = <<"Emma", "Olivia">>
    /\ events = <<MatchesUpdated(<<"Emma", "Olivia">>), ConnectionChange(TRUE)>>
    /\ partnerState.likeVersion = 2

\* C15: joinSession with a code that, trimmed and lower-cased, is not exactly
\* 8 characters of [a-z0-9] throws before anything else happens: no socket is
\* opened, nothing is published, no callback fires, and the room, the stored
\* room code, the generation, the engine state and the status are unchanged.
C15_InvalidRoomCodeRejected ==
    [][lastOp'.op = "joinSession" =>
         \A roomCode \in RoomInputs :
            ( /\ JoinSession(roomCode)
              /\ \/ Len(normalizeRoomCode(roomCode)) # 8
                 \/ \E i \in DOMAIN normalizeRoomCode(roomCode) :
                        normalizeRoomCode(roomCode)[i] \notin LowerAlnum )
            => /\ lastOp'.threw
               /\ published' = <<>>
               /\ events' = <<>>
               /\ UNCHANGED <<storageVars, syncVars, sessionVars>>]_vars

C15_Witness ==
    /\ lastOp.op = "joinSession"
    /\ lastOp.threw
    /\ currentTopic = RoomA
    /\ sessionTopic = RoomA
    /\ status = IN_ROOM
    /\ socket = 1

\* C16: if the channel has not opened when the connect timeout fires, the join
\* attempt is aborted (its socket is closed), the status is set to ERROR, and
\* the join call rejects.
C16_ConnectTimeoutAborts ==
    [][\A g \in Generations :
          ( /\ lastOp'.op = "connectTimeout"
            /\ lastOp'.generation = g
            /\ ~ws[g].settled
            /\ ws[g].readyState = "CONNECTING" )
          => /\ status' = ERROR
             /\ Fired(Settled("rejected"))'
             /\ ws'[g].readyState \in {"CLOSING", "CLOSED"}]_vars

\* C17: the room code is persisted only after the channel is confirmed open (so
\* a join that fails leaves no reference to its room in storage): a step that
\* stores a room code is taken with the current socket open.
C17_PersistedOnlyWhenOpen ==
    [][(sessionTopic' # sessionTopic /\ sessionTopic' # NoTopic)
         => /\ socket' # NoSocket
            /\ ws'[socket'].readyState = "OPEN"]_vars

C19_DisconnectCreatesRoom ==
    [][(lastOp'.op = "disconnectAndCreate" /\ currentTopic # NoTopic) =>
         /\ lastOp'.storageCalls = <<"clearSessionTopic", "setSessionTopic">>
         /\ Len(currentTopic') = 8
         /\ \A i \in 1..Len(currentTopic') : currentTopic'[i] \in LowerAlnum
         /\ currentTopic' \in createRoomCodeResults
         /\ sessionTopic' = currentTopic'
         /\ status' = CONNECTING
         /\ socket' = sessionGeneration'
         /\ ws'[socket'].readyState = "CONNECTING"
         /\ ws'[socket'].topicName = buildTopic(currentTopic')
         /\ partnerState' = [likes |-> {}, likeVersion |-> 0]
         /\ myLikeVersion' = 0]_vars

C19_Witness ==
    /\ lastOp.op = "disconnectAndCreate"
    /\ sessionGeneration = 3
    /\ 1 \in DOMAIN ws
    /\ ws[1].topicName = buildTopic(RoomA)
    /\ ws[1].handshake = "done"
    /\ ws[1].readyState = "CLOSING"
    /\ currentTopic = RoomB
    /\ sessionTopic = RoomB

\* No reconnect attempt has succeeded.
EveryAttemptFailed ==
    \A id \in DOMAIN ws : ws[id].attempt = "reconnect" => ws[id].outcome # "resolved"

\* C20: when the channel of an active room has closed and every reconnect
\* attempt fails, the failure of the last attempt of the budget leaves the
\* status at IN_ROOM ("Spouse unavailable"), not ERROR, and no further
\* reconnect cycle is started: while every attempt fails, a cycle starts only
\* when a channel that had opened closes, never when the socket of a failed
\* attempt closes.
C20_SettlesUnavailable ==
    [][/\ ( /\ isReconnecting
            /\ reconnectAttempt = maxAttempts
            /\ lastOp'.op \in {"onerror", "connectTimeout"}
            /\ ~isReconnecting' )
          => status' = IN_ROOM
       /\ (EveryAttemptFailed /\ ~isReconnecting /\ isReconnecting')
          => /\ lastOp'.op = "onclose"
             /\ ws[lastOp'.socket].outcome = "resolved"]_vars

\* Both clients are in the room, the local handshake has finished and the
\* relay has nothing left to deliver.
Quiescent ==
    /\ partner.joined
    /\ 1 \in DOMAIN ws
    /\ ws[1].readyState = "OPEN"
    /\ ws[1].handshake = "done"
    /\ toLocal = {}
    /\ toPartner = {}

\* C14: when two clients have joined the same room and every envelope posted
\* while the other side's channel was open has been delivered (in any order,
\* possibly more than once), with no further likes, each side's cached remote
\* like set equals the other side's like list and both statuses are
\* CONNECTED, also when the partner posted its join and snapshot before the
\* local channel opened.
C14_PairConverges ==
    Quiescent =>
        /\ partnerState.likes = ToSet(PartnerLikes)
        /\ partner.likes = ToSet(likes)
        /\ status = CONNECTED
        /\ partner.status = CONNECTED

\* A failed reconnect attempt has just scheduled the next one.
RetryScheduled ==
    /\ lastOp.op \in {"connectTimeout", "onerror"}
    /\ isReconnecting
    /\ reconnectTimer # NoTimer

\* C21: reconnect delays are strictly increasing until the ceiling: the delay
\* set after failed attempt n is at most 30000 ms, and whatever the jitter
\* drawn after attempt n + 1, its delay is greater unless the delay after
\* attempt n has reached 30000 ms.
C21_BackoffIncreases ==
    RetryScheduled =>
        /\ reconnectTimer.delay <= maxDelay
        /\ \A random \in JitterDraws :
              \/ calculateBackoffDelay(reconnectAttempt + 1, random) > reconnectTimer.delay
              \/ reconnectTimer.delay = maxDelay

\* The third attempt has failed and the jitter drawn is not zero.
C21_Witness ==
    /\ RetryScheduled
    /\ reconnectAttempt = 3
    /\ reconnectTimer.delay > baseDelay * 2^3
    /\ reconnectTimer.delay < maxDelay

\* A payload that lacks the like list or the version its type carries.
LacksFields(p) == ~HasLikes(p) \/ ~HasVersion(p)

\* The partner's envelopes of a known type whose payload is malformed, and
\* the frames whose message is not an object or does not parse.
MalformedFrames ==
    { f \in InboundFrames :
        /\ f.event = "message"
        /\ f.topic = buildTopic(RoomA)
        /\ \/ f.message = <<>>
           \/ /\ f.message[1].senderId = PartnerId
              /\ f.message[1].type \in {"state_snapshot", "likes_batch", "resync_response"}
              /\ IF HasUsers(f.message[1].payload)
                 THEN \E i \in DOMAIN f.message[1].payload.users :
                         /\ f.message[1].payload.users[i].userId = PartnerId
                         /\ LacksFields(f.message[1].payload.users[i])
                 ELSE LacksFields(f.message[1].payload) }

\* C22: a malformed inbound envelope (a frame that does not parse, a message
\* that is not an object, a known type whose payload lacks the like list or
\* the version) is ignored: the cached partner likes, the partner version and
\* the status stay as they were.
C22_MalformedIgnored ==
    [][ \A f \in MalformedFrames :
          WsMessage(1, f) =>
              /\ partnerState' = partnerState
              /\ status' = status
      ]_vars

\* Nothing is in flight between the two clients and no like waits for the
\* debounce timer.
NothingPending ==
    /\ partner.joined
    /\ toLocal = {}
    /\ toPartner = {}
    /\ pendingLikeBuffer = <<>>
    /\ ~debounceTimer

\* A batch the partner receives does not continue the version it holds.
GapBatches(holder) ==
    { m \in toPartner : m.type = "likes_batch" /\ m.payload.likeVersion # holder.likeVersion + 1 }

Joined(op) ==
    /\ op.op \in {"joinSession", "createNewSession", "initializeAndReconnect"}
    /\ ~op.threw

\* C24: no state bleeds across room changes: after joinSession for a room, a
\* rejoin included, the pending buffer is empty and no debounce timer is armed,
\* the cached partner likes and their persisted copy are empty, the partner
\* version is 0, the known matches are empty and the local version is 0; a
\* batch posted afterwards holds only names notified since the join.
C24_NoBleedAcrossRooms ==
    [][ /\ Joined(lastOp') =>
              /\ pendingLikeBuffer' = <<>>
              /\ ~debounceTimer'
              /\ partnerState' = EmptyPartnerState
              /\ storedPartnerLikes' = {}
              /\ knownMatches' = {}
              /\ myLikeVersion' = 0
        /\ \A i \in 1..Len(published') :
              published'[i].type = "likes_batch" =>
                  /\ ToSet(published'[i].payload.likes) \subseteq notifiedNames
                  /\ published'[i].roomId = currentTopic'
      ]_vars

\* A second room has just been joined after a session whose handshake had
\* finished.
C24_Witness ==
    /\ Joined(lastOp)
    /\ sessionGeneration = 2
    /\ 1 \in DOMAIN ws
    /\ ws[1].handshake = "done"
    /\ ws[1].topicName = buildTopic(RoomA)
    /\ currentTopic = RoomB
    /\ pendingLikeBuffer = <<>>

\* C25: notifyLike is a no-op when the engine is not in a room or the name is
\* empty: the pending buffer, the debounce timer, the known matches and the
\* local version are unchanged, no callback fires, nothing is posted, and the
\* name is not among those a later batch carries.
C25_NotifyLikeNoOp ==
    [][ (lastOp'.op = "notifyLike" /\ (currentTopic = NoTopic \/ lastOp'.name = "")) =>
          /\ UNCHANGED <<pendingLikeBuffer, debounceTimer, knownMatches, myLikeVersion>>
          /\ notifiedNames' = notifiedNames
          /\ events' = <<>>
          /\ published' = <<>>
      ]_vars

\* notifyLike('') in a room, while a name waits for the timer.
C25_Witness ==
    /\ lastOp.op = "notifyLike"
    /\ lastOp.name = ""
    /\ currentTopic # NoTopic
    /\ pendingLikeBuffer = <<"Emma">>
    /\ debounceTimer

\* C26: the connection-established notification is idempotent: a snapshot or
\* batch accepted while the status is CONNECTED already fires neither
\* onConnectionChange(true) nor the CONNECTED status change; they fire on the
\* transition into the connected state only.
C26_ConnectedNotifiedOnce ==
    [][ (lastOp'.op = "onmessage" /\ status = CONNECTED) =>
          \A i \in DOMAIN events' :
              /\ events'[i] # ConnectionChange(TRUE)
              /\ events'[i] # StatusChange(CONNECTED)
      ]_vars

\* C27: on every successful channel open of the current generation the client
\* posts a join envelope and then, once that is posted, always its own
\* state_snapshot; the status becomes IN_ROOM and the join call resolves only
\* when the post of the snapshot has succeeded.
C27_HandshakeThenInRoom ==
    [][ /\ (lastOp'.op = "onopen" /\ ~isStale(lastOp'.generation)) =>
              /\ published' = <<Envelope("join", [likeVersion |-> myLikeVersion])>>
              /\ events' = <<>>
              /\ status' = status
        /\ (lastOp'.op = "joinPosted" /\ lastOp'.ok) =>
              /\ published' = <<Envelope("state_snapshot",
                                         [likes |-> likes, likeVersion |-> myLikeVersion])>>
              /\ events' = <<>>
              /\ status' = status
        /\ (\E i \in DOMAIN events' :
               events'[i] \in {StatusChange(IN_ROOM), Settled("resolved")}) =>
              /\ lastOp'.op = "snapshotPosted"
              /\ lastOp'.ok
      ]_vars

\* C28: an inbound message reaches the engine only if its topic is the topic
\* of the active room and it arrives on the socket of the current session
\* generation; a message of another topic, or on the socket of a superseded
\* session (a previous room, or a previous join of the same room), changes
\* nothing and is not answered.
C28_OnlyCurrentRoomAndGeneration ==
    [][ ( /\ lastOp'.op = "onmessage"
          /\ \/ lastOp'.generation # sessionGeneration
             \/ lastOp'.topic # buildTopic(currentTopic) ) =>
          /\ UNCHANGED <<storageVars, syncVars, status>>
          /\ events' = <<>>
          /\ published' = <<>>
      ]_vars

\* The room was joined a second time and a snapshot of the partner arrived on
\* the socket of the first join.
C28_Witness ==
    /\ lastOp.op = "onmessage"
    /\ lastOp.generation = 1
    /\ lastOp.type = "state_snapshot"
    /\ lastOp.topic = buildTopic(RoomA)
    /\ sessionGeneration = 2
    /\ currentTopic = RoomA
    /\ partnerState = EmptyPartnerState
    /\ published = <<>>

\* C29: when joinSession is called for a room while the attempt of an earlier
\* joinSession is still pending, no timer or callback of the earlier attempt
\* (connect timeout, open, handshake continuation, error, close) afterwards
\* changes the status, invokes a callback of the application or touches the
\* engine.
C29_SupersededAttemptCancelled ==
    [][ ( /\ lastOp'.op \in {"onopen", "joinPosted", "snapshotPosted", "connectTimeout",
                             "onerror", "onclose"}
          /\ lastOp'.generation < sessionGeneration
          /\ ~ws[lastOp'.generation].settled
          /\ currentTopic # NoTopic ) =>
          /\ status' = status
          /\ \A i \in 1..Len(events') : events'[i].cb = "settled"
          /\ UNCHANGED syncVars
      ]_vars

\* C30: disconnect clears the like-batch debounce outright: the names that
\* waited for the debounce timer are dropped with the timer and nothing is
\* posted for them, neither by disconnect nor later: a batch holds only names
\* passed to notifyLike since the last disconnect or join.
C30_DisconnectDropsPending ==
    [][ /\ lastOp'.op = "disconnect" =>
              /\ pendingLikeBuffer' = <<>>
              /\ ~debounceTimer'
              /\ published' = <<>>
        /\ lastOp'.op = "flushPendingLikes" =>
              \A i \in 1..Len(published') :
                  ToSet(published'[i].payload.likes) \subseteq notifiedNames
      ]_vars

\* disconnect() was called in a room while a name waited for the timer.
C30_Witness ==
    /\ lastOp.op = "disconnect"
    /\ lastOp.dropped = <<"Emma">>
    /\ pendingLikeBuffer = <<>>
    /\ ~debounceTimer
    /\ published = <<>>

\* C31: the status values keep their meaning: the status becomes CONNECTED
\* only when state of the partner is received in the current session, and it
\* is IN_ROOM only while a room is joined and the partner has not been seen in
\* that session: a status that is CONNECTED does not fall back to IN_ROOM
\* without a new join.
C31_StatusKeepsMeaning ==
    [][ /\ (status' = CONNECTED /\ status # CONNECTED) =>
              /\ lastOp'.op = "onmessage"
              /\ lastOp'.generation = sessionGeneration
              /\ lastOp'.senderId = PartnerId
              /\ lastOp'.type \in {"state_snapshot", "likes_batch", "resync_response"}
        /\ (status' = IN_ROOM /\ status # IN_ROOM) =>
              /\ currentTopic' # NoTopic
              /\ status # CONNECTED
        /\ (status = IN_ROOM /\ status' = IN_ROOM) => currentTopic' # NoTopic
      ]_vars

\* C32: when the channel of the current session closes while a room is active
\* and the client was in the room (no disconnect was called), a reconnect is
\* scheduled: the close leaves a reconnect timer armed or a socket of the
\* session still to open, so that the client can return to IN_ROOM or
\* CONNECTED without an action of the user.
C32_CloseSchedulesReconnect ==
    [][ ( /\ lastOp'.op = "onclose"
          /\ lastOp'.generation = sessionGeneration
          /\ currentTopic # NoTopic
          /\ status \in {IN_ROOM, CONNECTED} ) =>
          \/ reconnectTimer' # NoTimer
          \/ \E g \in DOMAIN ws' :
                 /\ ~isStale(g)
                 /\ ws'[g].readyState \in {"CONNECTING", "OPEN"}
      ]_vars

\* C33: in the reconnecting module, once disconnect(false) has ended a
\* session, what that session left behind does nothing that can be observed:
\* a callback of the socket of one of its reconnect attempts, or its reconnect
\* timer firing, opens no socket, publishes nothing and changes neither the
\* status nor isReconnecting, reconnectAttempt or the reconnect timer.
C33_StaleReconnectIsNoOp ==
    [][ /\ ( /\ lastOp'.op \in {"onopen", "connectTimeout", "onerror", "onclose"}
             /\ ws[lastOp'.socket].attempt = "reconnect"
             /\ ws[lastOp'.socket].generation # sessionGeneration ) =>
              /\ Len(ws') = Len(ws)
              /\ published' = <<>>
              /\ status' = status
              /\ isReconnecting' = isReconnecting
              /\ reconnectAttempt' = reconnectAttempt
              /\ reconnectTimer' = reconnectTimer
        /\ ( /\ lastOp'.op = "tryConnect"
             /\ reconnectTimer.generation # sessionGeneration ) =>
              /\ Len(ws') = Len(ws)
              /\ published' = <<>>
              /\ status' = status
              /\ isReconnecting' = isReconnecting
              /\ reconnectAttempt' = reconnectAttempt
              /\ reconnectTimer' = NoTimer
      ]_vars

\* The frames of the room's topic that carry a resync_response of the partner.
ResyncResponseFrames ==
    { f \in InboundFrames :
        /\ f.event = "message"
        /\ f.topic = buildTopic(RoomA)
        /\ f.message # <<>>
        /\ f.message[1].type = "resync_response"
        /\ f.message[1].senderId = PartnerId }

\* C34: a resync_response is applied exactly like a state_snapshot: whatever
\* its payload holds or lacks, handling it leaves the cached partner likes and
\* version, the persisted copy, the matches and the status that handling the
\* same payload as a state_snapshot leaves.
C34_ResyncResponseLikeSnapshot ==
    [][ \A f \in ResyncResponseFrames :
            WsMessage(1, f) =>
                LET snapshot == resolveSnapshotPayload(f.message[1])
                    asSnapshot == IF snapshot = <<>>
                                  THEN partnerState
                                  ELSE [likes |-> NewSet(snapshot[1].likes),
                                        likeVersion |-> snapshot[1].likeVersion]
                IN  /\ partnerState' = asSnapshot
                    /\ storedPartnerLikes' =
                           IF snapshot = <<>> THEN storedPartnerLikes ELSE asSnapshot.likes
                    /\ knownMatches' =
                           IF snapshot = <<>>
                           THEN knownMatches
                           ELSE NewSet(getMatches(likes, asSnapshot.likes))
                    /\ status' = IF snapshot = <<>> THEN status ELSE CONNECTED
      ]_vars

\* A lowercase alphanumeric code of exactly eight characters.
WellFormedRoomCode(code) ==
    /\ Len(code) = 8
    /\ \A i \in 1..Len(code) : code[i] \in LowerAlnum

\* C35: in every reachable state the active room code is absent or a
\* lowercase alphanumeric code of exactly 8 characters, the one persisted; the
\* codes createNewSession produces are such codes; getRoomFromUrl returns such
\* a code, the trimmed and lower-cased parameter, or nothing; and one room is
\* active at a time: a socket that is connecting or open is the current
\* socket, on the topic of the active room.
C35_RoomCodeWellFormed ==
    /\ currentTopic = NoTopic \/ WellFormedRoomCode(currentTopic)
    /\ callbacksSet => sessionTopic = currentTopic \/ sessionGeneration = 0
    /\ \A code \in createRoomCodeResults : WellFormedRoomCode(code)
    /\ \A room \in RoomInputs :
           getRoomFromUrl(room) = NoTopic \/ WellFormedRoomCode(getRoomFromUrl(room))
    /\ getRoomFromUrl(<<" ", "A", "7", "X", "2", "K", "9", "M", "1", " ">>) = RoomA
    /\ \A g \in DOMAIN ws :
           ws[g].readyState \in {"CONNECTING", "OPEN"} =>
               /\ g = socket
               /\ currentTopic # NoTopic
               /\ ws[g].topicName = buildTopic(currentTopic)

\* createNewSession replaced the room joined first: its socket is closing and
\* the socket of the new room is the only one that can open.
C35_Witness ==
    /\ lastOp.op = "createNewSession"
    /\ ~lastOp.threw
    /\ sessionGeneration = 2
    /\ currentTopic = RoomB
    /\ ws[1].topicName = buildTopic(RoomA)
    /\ ws[1].readyState = "CLOSING"
    /\ ws[2].readyState = "CONNECTING"

\* C36: within one room session the cached version of the partner never
\* decreases, and a snapshot of the partner that is older than the cached
\* state (published earlier, delivered late) does not roll the cached state
\* back: the cached like set and version stay as they are.
C36_NoRollback ==
    [][ /\ lastOp'.op = "onmessage" => partnerState'.likeVersion >= partnerState.likeVersion
        /\ \A f \in PartnerSnapshotFrames :
               ( /\ WsMessage(1, f)
                 /\ f.message[1].payload.likeVersion < partnerState.likeVersion ) =>
                   partnerState' = partnerState
      ]_vars

\* C37: once initializeFromStorage has run, after every operation of the
\* engine (handleMessage of any type, prepareForJoin, resetPartnerState,
\* disconnect) the partner like set persisted in storage equals the cached
\* partner like set.
C37_PersistedEqualsCached ==
    callbacksSet => storedPartnerLikes = partnerState.likes

\* A batch of the partner was merged into a cached set that was not empty.
C37_Witness ==
    /\ Handled(lastOp, "likes_batch", PartnerId)
    /\ partnerState = [likes |-> {"Emma", "Olivia"}, likeVersion |-> 1]
    /\ storedPartnerLikes = {"Emma", "Olivia"}

\* C38: in the full-resend module the exchange of likes messages between the
\* two clients of a room quiesces: with no name liked or unliked any more,
\* from some point on nothing is published and no message is in flight.
C38_ResendQuiesces ==
    <>[](toLocal = {} /\ toPartner = {} /\ published = <<>>)

\* C39: once the connect timeout has rejected the current join (status
\* ERROR), an event that arrives next on the socket of that attempt does not
\* revive it: an open does not post the join handshake, a message does not
\* reach the engine, and the status stays ERROR.
C39_TimedOutAttemptStaysDead ==
    [][ ( /\ lastOp.op = "connectTimeout"
          /\ lastOp.generation = sessionGeneration
          /\ status = ERROR
          /\ lastOp'.op \in {"onopen", "onmessage"}
          /\ lastOp'.generation = lastOp.generation ) =>
          /\ published' = <<>>
          /\ events' = <<>>
          /\ status' = ERROR
          /\ ws'[lastOp.generation].handshake = "idle"
          /\ UNCHANGED <<storageVars, syncVars>>
      ]_vars

\* C40: in the versioned session module the status and the room membership
\* agree in every reachable state: while a room is active (isInRoom() is
\* true) the status is not DISCONNECTED, and while no room is active the
\* status is DISCONNECTED.
C40_StatusAgreesWithRoom ==
    /\ currentTopic # NoTopic => status # DISCONNECTED
    /\ currentTopic = NoTopic => status = DISCONNECTED

====
